---- MODULE Spec2Model ----
(***************************************************************************)
(* Model of the field-normalization layer of the Jira and Confluence MCP   *)
(* clients (JiraClient, ConfluenceClient): the normalizeCustom* functions  *)
(* that map a loosely structured upstream JSON object to a canonical       *)
(* record, the query degraders parseJqlToFilters and                       *)
(* parseCqlToSimpleQuery, and the client operations with the upstream      *)
(* requests they send; of the tool handler of the Jira server and the      *)
(* configuration of both servers; and of the AI agent's entry point         *)
(* (validateConfig, the command loop of main) and executeFunction.         *)
(*                                                                         *)
(* JavaScript values are modelled as tagged tuples so that values of       *)
(* different JavaScript types stay comparable:                             *)
(*   <<"undefined">>, <<"null">>, <<"string", s>>, <<"number", n>>,        *)
(*   <<"boolean", b>>, <<"object", r>> (r a function from property names   *)
(*   to values), <<"array", seq>>, and <<"throw", name>> for a raised      *)
(*   error.                                                                *)
(***************************************************************************)
EXTENDS Integers, Sequences, FiniteSets, TLC

VARIABLES
  kind,    \* which normalizer, degrader, operation or server is under study
  raw,     \* the input: upstream JSON value, query, tool call, function
           \* call, or process.env
  args,    \* caller's arguments of the operation; the lines read by main
  now,     \* the clock read by new Date()
  pc,      \* where the call or process stands
  out,     \* result of the (first) call; the console output of main
  out2,    \* result of the second call; the answer of a tool call; the
           \* client a server constructs; the exit code of main
  calledAt, \* clock value at the latest call
  requests \* requests sent and awaited, in order, each with its reply

vars == <<kind, raw, args, now, pc, out, out2, calledAt, requests>>

-----------------------------------------------------------------------------
(* Bounds *)

MaxClock == 2      \* the clock runs over 0..MaxClock
MaxItems == 2      \* longest upstream item array of a search response

-----------------------------------------------------------------------------
(* JavaScript values *)

UNDEF == <<"undefined">>
NULL == <<"null">>
Str(s) == <<"string", s>>
Num(n) == <<"number", n>>
Bool(b) == <<"boolean", b>>
Obj(r) == <<"object", r>>
Arr(s) == <<"array", s>>
TypeError == <<"throw", "TypeError">>
NONE == <<"none">>

EmptyRec == [k \in {} |-> UNDEF]

\* typeof v: null and arrays are 'object'
TypeOf(v) == IF v[1] \in {"null", "array"} THEN "object" ELSE v[1]

\* ToBoolean(v): undefined, null, "", 0 and false are falsy
Truthy(v) ==
  CASE v[1] = "undefined" -> FALSE
    [] v[1] = "null" -> FALSE
    [] v[1] = "string" -> v[2] # ""
    [] v[1] = "number" -> v[2] # 0
    [] v[1] = "boolean" -> v[2]
    [] OTHER -> TRUE

Nullish(v) == v[1] \in {"undefined", "null"}

IsThrow(v) == v[1] = "throw"

\* a || b
Or(a, b) == IF Truthy(a) THEN a ELSE b

\* v.k for a non-nullish v: own property of an object, undefined on a
\* primitive or an array (none of the keys read is a built-in property)
Prop(v, k) ==
  IF v[1] = "object" /\ k \in DOMAIN v[2] THEN v[2][k] ELSE UNDEF

\* v?.k
OptProp(v, k) == IF Nullish(v) THEN UNDEF ELSE Prop(v, k)

\* new Date().toISOString() at clock value t
IsoString(t) == Str("T" \o ToString(t))

-----------------------------------------------------------------------------
(* JiraClient normalizers *)

IssueId(c) == Or(Prop(c, "id"), Or(Prop(c, "issue_id"), Str("")))

IssueKey(c) ==
  Or(Prop(c, "key"), Or(Prop(c, "id"), Or(Prop(c, "number"), Str(""))))

\* the aliases of the summary consulted in another order
IssueSummary_SummaryFirst(c) ==
  Or(Prop(c, "summary"), Or(Prop(c, "title"), Or(Prop(c, "name"), Str(""))))

IssueSummary(c) ==
  Or(Prop(c, "title"), Or(Prop(c, "summary"), Or(Prop(c, "name"), Str(""))))

IssueDescription(c) ==
  Or(Prop(c, "description"), Or(Prop(c, "body"), Prop(c, "content")))

IssueStatus(c) ==
  Obj([name |-> Or(Prop(c, "status"), Or(Prop(c, "state"), Str("Unknown"))),
       id |-> Or(Prop(c, "status_id"), Or(Prop(c, "status"), Str("1")))])

\* the assignee wrapped the way the reporter is, without the string fallback
IssueAssignee_NoStringFallback(c) ==
  IF Truthy(Prop(c, "assignee"))
  THEN Obj([displayName |-> Or(Prop(Prop(c, "assignee"), "name"), Str("")),
            emailAddress |-> Or(Prop(Prop(c, "assignee"), "email"), Str(""))])
  ELSE UNDEF

IssueAssignee(c) ==
  IF Truthy(Prop(c, "assignee"))
  THEN Obj([displayName |-> Or(Prop(Prop(c, "assignee"), "name"),
                              Or(Prop(c, "assignee"), Str(""))),
            emailAddress |-> Or(Prop(Prop(c, "assignee"), "email"), Str(""))])
  ELSE UNDEF

IssueReporter(c) ==
  IF Truthy(Or(Prop(c, "reporter"), Prop(c, "created_by")))
  THEN Obj([displayName |-> Or(OptProp(Prop(c, "reporter"), "name"),
                              Or(Prop(c, "created_by"), Str(""))),
            emailAddress |-> Or(OptProp(Prop(c, "reporter"), "email"), Str(""))])
  ELSE UNDEF

\* the default timestamp taken once, at start-up, instead of at the call
IssueCreated_StartupTime(c, t) ==
  Or(Prop(c, "created"), Or(Prop(c, "created_at"), IsoString(0)))

IssueCreated(c, t) ==
  Or(Prop(c, "created"), Or(Prop(c, "created_at"), IsoString(t)))

IssueUpdated(c, t) ==
  Or(Prop(c, "updated"), Or(Prop(c, "updated_at"), IsoString(t)))

IssuePriority(c) ==
  IF Truthy(Prop(c, "priority"))
  THEN Obj([name |-> Prop(c, "priority"),
            id |-> Or(Prop(c, "priority_id"), Str("3"))])
  ELSE UNDEF

IssueType(c) ==
  Obj([name |-> Or(Prop(c, "type"), Or(Prop(c, "issue_type"), Str("Task"))),
       id |-> Or(Prop(c, "type_id"), Str("1"))])

IssueProject(c) ==
  Obj([key |-> Or(Prop(c, "project"), Or(Prop(c, "project_key"), Str(""))),
       name |-> Or(Prop(c, "project_name"), Or(Prop(c, "project"), Str("")))])

IssueLabels(c) == Or(Prop(c, "labels"), Or(Prop(c, "tags"), Arr(<<>>)))

normalizeCustomIssue(c, t) ==
  IF Nullish(c) THEN TypeError
  ELSE Obj([id |-> IssueId(c),
            key |-> IssueKey(c),
            fields |-> Obj([summary |-> IssueSummary(c),
                            description |-> IssueDescription(c),
                            status |-> IssueStatus(c),
                            assignee |-> IssueAssignee(c),
                            reporter |-> IssueReporter(c),
                            created |-> IssueCreated(c, t),
                            updated |-> IssueUpdated(c, t),
                            priority |-> IssuePriority(c),
                            issuetype |-> IssueType(c),
                            project |-> IssueProject(c),
                            labels |-> IssueLabels(c)])])

CommentAuthor(c) ==
  Or(Prop(c, "author"),
     Or(Prop(c, "user"), Or(Prop(c, "created_by"), Str("Unknown"))))

CommentBody(c) ==
  Or(Prop(c, "comment"), Or(Prop(c, "body"), Or(Prop(c, "content"), Str(""))))

Jira_normalizeCustomComment(c, t) ==
  IF Nullish(c) THEN TypeError
  ELSE Obj([id |-> Or(Prop(c, "id"), Or(Prop(c, "comment_id"), Str(""))),
            author |-> Obj([displayName |-> CommentAuthor(c),
                            emailAddress |-> Or(Prop(c, "author_email"), Str(""))]),
            body |-> CommentBody(c),
            created |-> Or(Prop(c, "created"), Or(Prop(c, "created_at"), IsoString(t))),
            updated |-> Or(Prop(c, "updated"), Or(Prop(c, "updated_at"), IsoString(t)))])

ProjectLead(c) ==
  IF Truthy(Or(Prop(c, "lead"), Prop(c, "owner")))
  THEN Obj([displayName |-> Or(OptProp(Prop(c, "lead"), "name"),
                              Or(Prop(c, "owner"), Str("")))])
  ELSE UNDEF

normalizeCustomProject(c) ==
  IF Nullish(c) THEN TypeError
  ELSE Obj([id |-> Or(Prop(c, "id"), Or(Prop(c, "project_id"), Str(""))),
            key |-> Or(Prop(c, "key"),
                       Or(Prop(c, "code"), Or(Prop(c, "id"), Str("")))),
            name |-> Or(Prop(c, "name"), Or(Prop(c, "title"), Str(""))),
            description |-> Or(Prop(c, "description"), Str("")),
            lead |-> ProjectLead(c)])

\* the callback getTransitions maps over the upstream transitions
TransitionFromCustom(c) ==
  IF Nullish(c) THEN TypeError
  ELSE Obj([id |-> Or(Prop(c, "id"), Or(Prop(c, "transition_id"), Str(""))),
            name |-> Or(Prop(c, "name"),
                        Or(Prop(c, "status"), Or(Prop(c, "to_status"), Str("")))),
            to |-> Obj([name |-> Or(Prop(c, "to_status"),
                                    Or(Prop(c, "target_status"),
                                       Or(Prop(c, "name"), Str("")))),
                        id |-> Or(Prop(c, "to_id"), Or(Prop(c, "id"), Str("")))])])

\* array.map(f), given the results of f on the items in order: the array of
\* the results, or the error of the first callback that raises
MapItems(results) ==
  IF \E i \in 1..Len(results) : IsThrow(results[i])
  THEN TypeError
  ELSE Arr(results)

\* customResult.issues || customResult.data || customResult.results || []
IssueItems(r) ==
  Or(Prop(r, "issues"), Or(Prop(r, "data"), Or(Prop(r, "results"), Arr(<<>>))))

\* the total taken from the item count alone
IssueTotal_ItemCount(r, issues) == Num(Len(issues[2]))

IssueTotal(r, issues) == Or(Prop(r, "total"), Num(Len(issues[2])))

Jira_normalizeCustomSearchResult(r, maxResults, startAt, t) ==
  LET issues == IssueItems(r)
  IN IF Nullish(r) \/ issues[1] # "array" THEN TypeError
     ELSE LET mapped == MapItems([i \in 1..Len(issues[2]) |->
                                       normalizeCustomIssue(issues[2][i], t)])
          IN IF IsThrow(mapped) THEN TypeError
             ELSE Obj([issues |-> mapped,
                       total |-> IssueTotal(r, issues),
                       maxResults |-> maxResults,
                       startAt |-> startAt])

-----------------------------------------------------------------------------
(* ConfluenceClient normalizers *)

\* String(v) as used by a template literal
RECURSIVE JsToString(_)
JsToString(v) ==
  CASE v[1] = "string" -> v[2]
    [] v[1] = "number" -> ToString(v[2])
    [] v[1] = "boolean" -> IF v[2] THEN "true" ELSE "false"
    [] v[1] = "object" -> "[object Object]"
    [] v[1] = "array" ->
         IF Len(v[2]) = 0 THEN ""
         ELSE IF Len(v[2]) = 1
              THEN (IF Nullish(v[2][1]) THEN "" ELSE JsToString(v[2][1]))
              ELSE (IF Nullish(v[2][1]) THEN "" ELSE JsToString(v[2][1]))
                   \o "," \o JsToString(Arr(Tail(v[2])))
    [] OTHER -> v[1]

PageId(c) == Or(Prop(c, "id"), Or(Prop(c, "page_id"), Str("")))

PageTitle(c) == Or(Prop(c, "title"), Or(Prop(c, "name"), Str("")))

PageStatus(c) == Or(Prop(c, "status"), Str("current"))

\* typeof customPage.space === 'object' ? customPage.space.<k>
\*                                      : (customPage.space || customPage.space_key)
PageSpaceField(c, k) ==
  IF TypeOf(Prop(c, "space")) = "object"
  THEN (IF Nullish(Prop(c, "space")) THEN TypeError
        ELSE Prop(Prop(c, "space"), k))
  ELSE Or(Prop(c, "space"), Prop(c, "space_key"))

PageSpace(c) ==
  IF Truthy(Or(Prop(c, "space"), Prop(c, "space_key")))
  THEN (IF IsThrow(PageSpaceField(c, "key")) THEN TypeError
        ELSE Obj([key |-> PageSpaceField(c, "key"),
                  name |-> PageSpaceField(c, "name")]))
  ELSE UNDEF

PageContent(c) ==
  Or(Prop(c, "content"), Or(Prop(c, "body"), Or(Prop(c, "text"), Str(""))))

PageVersionNumber(c) == Or(Prop(c, "version"), Or(Prop(c, "revision"), Num(1)))

PageVersion(c, t) ==
  Obj([number |-> PageVersionNumber(c),
       when |-> Or(Prop(c, "updated"), Or(Prop(c, "updated_at"), IsoString(t))),
       by |-> Obj([displayName |-> Or(Prop(c, "updated_by"),
                                      Or(Prop(c, "author"), Str("Unknown"))),
                   email |-> Or(Prop(c, "updated_by_email"), Str(""))])])

PageHistory(c, t) ==
  Obj([createdDate |-> Or(Prop(c, "created"),
                          Or(Prop(c, "created_at"), IsoString(t))),
       createdBy |-> Obj([displayName |-> Or(Prop(c, "created_by"),
                                             Or(Prop(c, "author"), Str("Unknown"))),
                          email |-> Or(Prop(c, "created_by_email"), Str(""))])])

normalizeCustomPage(c, t) ==
  IF Nullish(c) \/ IsThrow(PageSpace(c)) THEN TypeError
  ELSE Obj([id |-> PageId(c),
            title |-> PageTitle(c),
            type |-> Str("page"),
            status |-> PageStatus(c),
            space |-> PageSpace(c),
            body |-> Obj([storage |-> Obj([value |-> PageContent(c),
                                           representation |-> Str("storage")]),
                          view |-> Obj([value |-> PageContent(c),
                                        representation |-> Str("view")])]),
            version |-> PageVersion(c, t),
            history |-> PageHistory(c, t),
            _links |-> Obj([webui |-> Or(Prop(c, "url"), Or(Prop(c, "link"), Str(""))),
                            self |-> Str("/rest/api/content/"
                                         \o JsToString(Or(Prop(c, "id"), Prop(c, "page_id"))))])])

normalizeCustomSpace(c) ==
  IF Nullish(c) THEN TypeError
  ELSE Obj([key |-> Or(Prop(c, "key"),
                       Or(Prop(c, "id"), Or(Prop(c, "code"), Str("")))),
            name |-> Or(Prop(c, "name"), Or(Prop(c, "title"), Str(""))),
            type |-> Or(Prop(c, "type"), Str("global")),
            description |-> Obj([plain |-> Obj([value |-> Or(Prop(c, "description"), Str(""))])]),
            _links |-> Obj([webui |-> Or(Prop(c, "url"), Or(Prop(c, "link"), Str(""))),
                            self |-> Str("/rest/api/space/"
                                         \o JsToString(Or(Prop(c, "key"), Prop(c, "id"))))])])

Confluence_normalizeCustomComment(c, t) ==
  IF Nullish(c) THEN TypeError
  ELSE Obj([id |-> Or(Prop(c, "id"), Or(Prop(c, "comment_id"), Str(""))),
            type |-> Str("comment"),
            title |-> Or(Prop(c, "title"), Str("")),
            body |-> Obj([storage |-> Obj([value |-> CommentBody(c),
                                           representation |-> Str("storage")])]),
            version |-> Obj([number |-> Or(Prop(c, "version"), Num(1)),
                             when |-> Or(Prop(c, "created"),
                                         Or(Prop(c, "created_at"), IsoString(t))),
                             by |-> Obj([displayName |-> CommentAuthor(c),
                                         email |-> Or(Prop(c, "author_email"), Str(""))])])])

\* customResult.pages || customResult.data || customResult.results || []
PageItems(r) ==
  Or(Prop(r, "pages"), Or(Prop(r, "data"), Or(Prop(r, "results"), Arr(<<>>))))

Confluence_normalizeCustomSearchResult(r, limit, start, t) ==
  LET pages == PageItems(r)
  IN IF Nullish(r) \/ pages[1] # "array" THEN TypeError
     ELSE LET mapped == MapItems([i \in 1..Len(pages[2]) |->
                                       normalizeCustomPage(pages[2][i], t)])
          IN IF IsThrow(mapped) THEN TypeError
             ELSE Obj([results |-> mapped,
                       start |-> start,
                       limit |-> limit,
                       size |-> Num(Len(pages[2]))])

-----------------------------------------------------------------------------
(* Inputs: upstream JSON values of unknown shape *)

Person == Obj([name |-> Str("n"), email |-> Str("e"), key |-> Str("k")])

\* values an upstream field may carry, of expected and unexpected type
InputVals ==
  {NULL, Str(""), Str("a"), Str("b"), Num(0), Num(5), Bool(FALSE), Person,
   Arr(<<Str("x")>>)}

Kinds ==
  {"issue", "jiraComment", "project", "transition", "page", "space",
   "confluenceComment", "issueSearch", "pageSearch"}

SearchKinds == {"issueSearch", "pageSearch"}

\* the raw keys each canonical entity of a record is computed from
ReadSets(k) ==
  CASE k = "issue" ->
         {{"id", "issue_id"}, {"key", "id", "number"},
          {"title", "summary", "name"}, {"description", "body", "content"},
          {"status", "state", "status_id"}, {"assignee"},
          {"reporter", "created_by"}, {"created", "created_at"},
          {"updated", "updated_at"}, {"priority", "priority_id"},
          {"type", "issue_type", "type_id"},
          {"project", "project_key", "project_name"}, {"labels", "tags"}}
    [] k = "jiraComment" ->
         {{"id", "comment_id"}, {"author", "user", "created_by"},
          {"author_email"}, {"comment", "body", "content"},
          {"created", "created_at"}, {"updated", "updated_at"}}
    [] k = "project" ->
         {{"id", "project_id"}, {"key", "code", "id"}, {"name", "title"},
          {"description"}, {"lead", "owner"}}
    [] k = "transition" ->
         {{"id", "transition_id", "to_id"}, {"name", "status", "to_status"},
          {"to_status", "target_status", "name"}}
    [] k = "page" ->
         {{"id", "page_id"}, {"title", "name"}, {"status"},
          {"space", "space_key"}, {"content", "body", "text"},
          {"version", "revision"}, {"updated", "updated_at"},
          {"updated_by", "author", "created_by"}, {"updated_by_email"},
          {"created", "created_at"}, {"created_by_email"}, {"url", "link"}}
    [] k = "space" ->
         {{"key", "id", "code"}, {"name", "title"}, {"type"},
          {"description"}, {"url", "link"}}
    [] k = "confluenceComment" ->
         {{"id", "comment_id"}, {"title"}, {"comment", "body", "content"},
          {"version"}, {"created", "created_at"},
          {"author", "user", "created_by"}, {"author_email"}}
    [] OTHER -> {}

\* f extended by the properties of g that f lacks
Merge(f, g) ==
  [key \in DOMAIN f \cup DOMAIN g |-> IF key \in DOMAIN f THEN f[key] ELSE g[key]]

\* properties an upstream object may carry besides those of the read set:
\* none, or (for a page) a null space next to a space key
Contexts(k) ==
  IF k = "page" THEN {EmptyRec, [space |-> NULL, space_key |-> Str("DEV")]}
  ELSE {EmptyRec}

\* every object that assigns input values to some of the keys of one read
\* set, alone or within a context
EntityInputs(k) ==
  UNION {UNION {{Obj(Merge(f, g)) : f \in [S -> InputVals], g \in Contexts(k)} :
                S \in SUBSET G} :
         G \in ReadSets(k)}

\* items of an upstream search response
ItemSet == {Obj([title |-> Str("a")]), Obj([id |-> Str("b")])}

ItemArrays ==
  UNION {{Arr(s) : s \in [1..n -> ItemSet]} : n \in 0..MaxItems}

SearchInputs(k) ==
  LET lists == IF k = "issueSearch" THEN {"issues", "data", "results"}
               ELSE {"pages", "data", "results"}
      totals == IF k = "issueSearch" THEN {Num(0), Num(7)} ELSE {}
      withLists == UNION {{Obj(f) : f \in [S -> ItemArrays \cup {NULL}]} :
                          S \in SUBSET lists}
  IN withLists \cup
     {Obj([key \in DOMAIN o[2] \cup {"total"} |->
             IF key = "total" THEN tot ELSE o[2][key]]) :
        o \in withLists, tot \in totals}

Inputs(k) == IF k \in SearchKinds THEN SearchInputs(k) ELSE EntityInputs(k)

NoArgs == [limit |-> Num(0), start |-> Num(0)]

\* the caller's (limit, start) of a search
SearchArgs ==
  {[limit |-> Num(10), start |-> Num(0)], [limit |-> Num(50), start |-> Num(20)]}

-----------------------------------------------------------------------------
(* The calls *)

\* the normalizer of kind k applied to c at clock value t
Call(k, c, a, t) ==
  CASE k = "issue" -> normalizeCustomIssue(c, t)
    [] k = "jiraComment" -> Jira_normalizeCustomComment(c, t)
    [] k = "project" -> normalizeCustomProject(c)
    [] k = "transition" -> TransitionFromCustom(c)
    [] k = "page" -> normalizeCustomPage(c, t)
    [] k = "space" -> normalizeCustomSpace(c)
    [] k = "confluenceComment" -> Confluence_normalizeCustomComment(c, t)
    [] k = "issueSearch" ->
         Jira_normalizeCustomSearchResult(c, a.limit, a.start, t)
    [] k = "pageSearch" ->
         Confluence_normalizeCustomSearchResult(c, a.limit, a.start, t)

Init ==
  /\ kind \in Kinds
  /\ raw \in Inputs(kind)
  /\ args \in (IF kind \in SearchKinds THEN SearchArgs ELSE {NoArgs})
  /\ now = 0
  /\ pc = "idle"
  /\ out = NONE
  /\ out2 = NONE
  /\ calledAt = 0
  /\ requests = <<>>

\* the normalizer is called on the upstream value
Normalize ==
  /\ pc = "idle"
  /\ out' = Call(kind, raw, args, now)
  /\ pc' = "normalized"
  /\ calledAt' = now
  /\ UNCHANGED <<kind, raw, args, now, out2, requests>>

\* time passes between two calls
Tick ==
  /\ pc = "normalized"
  /\ now < MaxClock
  /\ now' = now + 1
  /\ UNCHANGED <<kind, raw, args, pc, out, out2, calledAt, requests>>

\* the normalizer is called a second time on the same upstream value
Repeat ==
  /\ pc = "normalized"
  /\ out2' = Call(kind, raw, args, now)
  /\ pc' = "repeated"
  /\ calledAt' = now
  /\ UNCHANGED <<kind, raw, args, now, out, requests>>

\* the normalizer is called on its own output
Renormalize ==
  /\ pc = "normalized"
  /\ ~IsThrow(out)
  /\ out2' = Call(kind, out, args, now)
  /\ pc' = "renormalized"
  /\ calledAt' = now
  /\ UNCHANGED <<kind, raw, args, now, out, requests>>

Next == Normalize \/ Tick \/ Repeat \/ Renormalize

Spec == Init /\ [][Next]_vars

-----------------------------------------------------------------------------
(* Vocabulary of the properties *)

\* the value at a path of property names, undefined when a step is missing
RECURSIVE At(_, _)
At(v, path) ==
  IF path = <<>> THEN v ELSE At(OptProp(v, Head(path)), Tail(path))

Returned(v) == v # NONE /\ ~IsThrow(v)

NonEmptyString(v) == v[1] = "string" /\ v[2] # ""

\* result and input of the latest call on the upstream value
Latest == IF pc = "repeated" THEN out2 ELSE out

\* what the alias space of a raw page c gives to space.key / space.name: the
\* property sub of a space object, the space itself when it is a string
SpaceAliasValue(c, sub) ==
  IF TypeOf(Prop(c, "space")) = "object"
  THEN OptProp(Prop(c, "space"), sub)
  ELSE Prop(c, "space")

\* the canonical attributes of a record of kind k: the path of the canonical
\* field and the values the raw object c gives to its aliases, in alias order
Attributes(k, c) ==
  LET P(key) == Prop(c, key)
      N(key, sub) == OptProp(Prop(c, key), sub)
      SpaceAlias(sub) == SpaceAliasValue(c, sub)
  IN CASE k = "issue" ->
       {[field |-> <<"id">>, vals |-> <<P("id"), P("issue_id")>>],
        [field |-> <<"key">>, vals |-> <<P("key"), P("id"), P("number")>>],
        [field |-> <<"fields", "summary">>,
         vals |-> <<P("title"), P("summary"), P("name")>>],
        [field |-> <<"fields", "description">>,
         vals |-> <<P("description"), P("body"), P("content")>>],
        [field |-> <<"fields", "status", "name">>,
         vals |-> <<P("status"), P("state")>>],
        [field |-> <<"fields", "status", "id">>,
         vals |-> <<P("status_id"), P("status")>>],
        [field |-> <<"fields", "assignee", "displayName">>,
         vals |-> <<N("assignee", "name")>>],
        [field |-> <<"fields", "assignee", "emailAddress">>,
         vals |-> <<N("assignee", "email")>>],
        [field |-> <<"fields", "reporter", "displayName">>,
         vals |-> <<N("reporter", "name"), P("created_by")>>],
        [field |-> <<"fields", "reporter", "emailAddress">>,
         vals |-> <<N("reporter", "email")>>],
        [field |-> <<"fields", "created">>,
         vals |-> <<P("created"), P("created_at")>>],
        [field |-> <<"fields", "updated">>,
         vals |-> <<P("updated"), P("updated_at")>>],
        [field |-> <<"fields", "priority", "name">>, vals |-> <<P("priority")>>],
        [field |-> <<"fields", "priority", "id">>, vals |-> <<P("priority_id")>>],
        [field |-> <<"fields", "issuetype", "name">>,
         vals |-> <<P("type"), P("issue_type")>>],
        [field |-> <<"fields", "issuetype", "id">>, vals |-> <<P("type_id")>>],
        [field |-> <<"fields", "project", "key">>,
         vals |-> <<P("project"), P("project_key")>>],
        [field |-> <<"fields", "project", "name">>,
         vals |-> <<P("project_name"), P("project")>>],
        [field |-> <<"fields", "labels">>, vals |-> <<P("labels"), P("tags")>>]}
     [] k = "jiraComment" ->
       {[field |-> <<"id">>, vals |-> <<P("id"), P("comment_id")>>],
        [field |-> <<"author", "displayName">>,
         vals |-> <<P("author"), P("user"), P("created_by")>>],
        [field |-> <<"author", "emailAddress">>, vals |-> <<P("author_email")>>],
        [field |-> <<"body">>, vals |-> <<P("comment"), P("body"), P("content")>>],
        [field |-> <<"created">>, vals |-> <<P("created"), P("created_at")>>],
        [field |-> <<"updated">>, vals |-> <<P("updated"), P("updated_at")>>]}
     [] k = "project" ->
       {[field |-> <<"id">>, vals |-> <<P("id"), P("project_id")>>],
        [field |-> <<"key">>, vals |-> <<P("key"), P("code"), P("id")>>],
        [field |-> <<"name">>, vals |-> <<P("name"), P("title")>>],
        [field |-> <<"description">>, vals |-> <<P("description")>>],
        [field |-> <<"lead", "displayName">>,
         vals |-> <<N("lead", "name"), P("owner")>>]}
     [] k = "transition" ->
       {[field |-> <<"id">>, vals |-> <<P("id"), P("transition_id")>>],
        [field |-> <<"name">>, vals |-> <<P("name"), P("status"), P("to_status")>>],
        [field |-> <<"to", "name">>,
         vals |-> <<P("to_status"), P("target_status"), P("name")>>],
        [field |-> <<"to", "id">>, vals |-> <<P("to_id"), P("id")>>]}
     [] k = "page" ->
       {[field |-> <<"id">>, vals |-> <<P("id"), P("page_id")>>],
        [field |-> <<"title">>, vals |-> <<P("title"), P("name")>>],
        [field |-> <<"status">>, vals |-> <<P("status")>>],
        [field |-> <<"space", "key">>, vals |-> <<SpaceAlias("key"), P("space_key")>>],
        [field |-> <<"space", "name">>,
         vals |-> <<SpaceAlias("name"), P("space_key")>>],
        [field |-> <<"body", "storage", "value">>,
         vals |-> <<P("content"), P("body"), P("text")>>],
        [field |-> <<"body", "view", "value">>,
         vals |-> <<P("content"), P("body"), P("text")>>],
        [field |-> <<"version", "number">>, vals |-> <<P("version"), P("revision")>>],
        [field |-> <<"version", "when">>, vals |-> <<P("updated"), P("updated_at")>>],
        [field |-> <<"version", "by", "displayName">>,
         vals |-> <<P("updated_by"), P("author")>>],
        [field |-> <<"version", "by", "email">>, vals |-> <<P("updated_by_email")>>],
        [field |-> <<"history", "createdDate">>,
         vals |-> <<P("created"), P("created_at")>>],
        [field |-> <<"history", "createdBy", "displayName">>,
         vals |-> <<P("created_by"), P("author")>>],
        [field |-> <<"history", "createdBy", "email">>,
         vals |-> <<P("created_by_email")>>],
        [field |-> <<"_links", "webui">>, vals |-> <<P("url"), P("link")>>]}
     [] k = "space" ->
       {[field |-> <<"key">>, vals |-> <<P("key"), P("id"), P("code")>>],
        [field |-> <<"name">>, vals |-> <<P("name"), P("title")>>],
        [field |-> <<"type">>, vals |-> <<P("type")>>],
        [field |-> <<"description", "plain", "value">>, vals |-> <<P("description")>>],
        [field |-> <<"_links", "webui">>, vals |-> <<P("url"), P("link")>>]}
     [] k = "confluenceComment" ->
       {[field |-> <<"id">>, vals |-> <<P("id"), P("comment_id")>>],
        [field |-> <<"title">>, vals |-> <<P("title")>>],
        [field |-> <<"body", "storage", "value">>,
         vals |-> <<P("comment"), P("body"), P("content")>>],
        [field |-> <<"version", "number">>, vals |-> <<P("version")>>],
        [field |-> <<"version", "when">>, vals |-> <<P("created"), P("created_at")>>],
        [field |-> <<"version", "by", "displayName">>,
         vals |-> <<P("author"), P("user"), P("created_by")>>],
        [field |-> <<"version", "by", "email">>, vals |-> <<P("author_email")>>]}
     [] OTHER -> {}

Provided(v) == ~Nullish(v)

\* index of the first alias whose value is truthy, 0 when there is none
FirstTruthy(vals) ==
  IF \E i \in 1..Len(vals) : Truthy(vals[i])
  THEN CHOOSE i \in 1..Len(vals) :
         Truthy(vals[i]) /\ \A j \in 1..(i - 1) : ~Truthy(vals[j])
  ELSE 0

\* index of the first alias whose value is present and non-null, 0 when
\* there is none
FirstProvided(vals) ==
  IF \E i \in 1..Len(vals) : Provided(vals[i])
  THEN CHOOSE i \in 1..Len(vals) :
         Provided(vals[i]) /\ \A j \in 1..(i - 1) : ~Provided(vals[j])
  ELSE 0

-----------------------------------------------------------------------------
(* Properties *)

\* C1: for every canonical attribute and every raw object that gives a
\* non-empty value to exactly one of the attribute's aliases (the others
\* being absent or null), the normalized record carries that value in the
\* canonical field.
C1_SoleAliasCarried ==
  pc # "idle" =>
    \A a \in Attributes(kind, raw) :
      \A i \in 1..Len(a.vals) :
        (/\ Truthy(a.vals[i])
         /\ \A j \in 1..Len(a.vals) : j # i => Nullish(a.vals[j]))
        => At(out, a.field) = a.vals[i]

\* C2: whenever the normalizer returns a record for a raw object that gives
\* non-empty values to several aliases of one attribute, the canonical field
\* holds the value of the earliest of them in the attribute's alias order
\* (issue summary title > summary > name, issue key key > id > number, page
\* id id > page_id, page title title > name, page body content > body >
\* text, page space space > space_key, page version version > revision, and
\* likewise for every other attribute); a page space of any shape hides
\* space_key.
C2_EarliestAliasWins ==
  (pc # "idle" /\ Returned(out)) =>
    /\ \A a \in Attributes(kind, raw) :
         Cardinality({i \in 1..Len(a.vals) : Truthy(a.vals[i])}) >= 2
         => At(out, a.field) = a.vals[FirstTruthy(a.vals)]
    /\ (kind = "page" /\ Truthy(Prop(raw, "space")) /\ Truthy(Prop(raw, "space_key")))
       => /\ At(out, <<"space", "key">>) = SpaceAliasValue(raw, "key")
          /\ At(out, <<"space", "name">>) = SpaceAliasValue(raw, "name")

\* an issue carrying title, summary and name has been normalized to a
\* summary equal to its title
C2_Witness ==
  /\ pc = "normalized"
  /\ kind = "issue"
  /\ raw = Obj([title |-> Str("a"), summary |-> Str("b"), name |-> Str("b")])
  /\ At(out, <<"fields", "summary">>) = Str("a")

\* C3: in every record a normalizer returns, an alias whose value is present
\* and non-null wins over every later alias and over the default, also when
\* that value is 0, "" or false.
C3_NonNullAliasWins ==
  (pc # "idle" /\ Returned(out)) =>
    \A a \in Attributes(kind, raw) :
      (\E i \in 1..Len(a.vals) : Provided(a.vals[i]))
      => At(out, a.field) = a.vals[FirstProvided(a.vals)]

\* C4: an issue whose raw assignee is a plain non-empty string s is
\* normalized to an assignee with displayName s and emailAddress "".
C4_StringAssigneeWrapped ==
  (pc # "idle" /\ kind = "issue" /\ NonEmptyString(Prop(raw, "assignee"))) =>
    /\ Returned(out)
    /\ At(out, <<"fields", "assignee">>) =
         Obj([displayName |-> Prop(raw, "assignee"), emailAddress |-> Str("")])

C4_Witness ==
  /\ pc = "normalized"
  /\ kind = "issue"
  /\ raw = Obj([assignee |-> Str("a")])
  /\ At(out, <<"fields", "assignee", "displayName">>) = Str("a")

\* C5: string wrapping holds for every nested entity: a string reporter s
\* gives reporter.displayName = s, a string lead s gives lead.displayName =
\* s, and a string space s gives space.key = space.name = s.
C5_StringWrappingEverywhere ==
  pc # "idle" =>
    /\ (kind = "issue" /\ NonEmptyString(Prop(raw, "reporter")))
       => At(out, <<"fields", "reporter", "displayName">>) = Prop(raw, "reporter")
    /\ (kind = "project" /\ NonEmptyString(Prop(raw, "lead")))
       => At(out, <<"lead", "displayName">>) = Prop(raw, "lead")
    /\ (kind = "page" /\ NonEmptyString(Prop(raw, "space")))
       => /\ At(out, <<"space", "key">>) = Prop(raw, "space")
          /\ At(out, <<"space", "name">>) = Prop(raw, "space")

\* C6: normalization is idempotent: the normalizer applied to its own output
\* returns that output again.
C6_Idempotent == pc = "renormalized" => out2 = out

\* the non-optional canonical fields of an issue and of a page
RequiredFields(k) ==
  CASE k = "issue" ->
         {<<"id">>, <<"key">>, <<"fields", "summary">>,
          <<"fields", "description">>, <<"fields", "status">>,
          <<"fields", "created">>, <<"fields", "updated">>,
          <<"fields", "issuetype">>, <<"fields", "project">>,
          <<"fields", "labels">>}
    [] k = "page" ->
         {<<"id">>, <<"title">>, <<"type">>, <<"status">>, <<"body">>,
          <<"version">>, <<"history">>}
    [] OTHER -> {}

\* C7: in every record the issue or page normalizer returns, every
\* non-optional canonical field is defined, and a field whose aliases are all
\* missing has the same default value on every call.
C7_DefinedAndDeterministic ==
  (pc # "idle" /\ Returned(out)) =>
    /\ \A f \in RequiredFields(kind) : At(out, f) # UNDEF
    /\ pc = "repeated" =>
         \A a \in Attributes(kind, raw) :
           (\A i \in 1..Len(a.vals) : Nullish(a.vals[i]))
           => At(out2, a.field) = At(out, a.field)

\* C8: normalization never raises: for every raw JSON object each normalizer
\* returns a record.
C8_NeverRaises ==
  /\ pc # "idle" => ~IsThrow(out)
  /\ pc = "repeated" => ~IsThrow(out2)

\* the documented defaults of a record of kind k normalized at clock value t
DocumentedDefaults(k, t) ==
  CASE k = "issue" ->
         {[field |-> <<"fields", "created">>, default |-> IsoString(t)],
          [field |-> <<"fields", "updated">>, default |-> IsoString(t)],
          [field |-> <<"fields", "labels">>, default |-> Arr(<<>>)],
          [field |-> <<"fields", "status", "name">>, default |-> Str("Unknown")],
          [field |-> <<"fields", "issuetype", "name">>, default |-> Str("Task")]}
    [] k = "jiraComment" ->
         {[field |-> <<"created">>, default |-> IsoString(t)],
          [field |-> <<"updated">>, default |-> IsoString(t)],
          [field |-> <<"author", "displayName">>, default |-> Str("Unknown")]}
    [] k = "confluenceComment" ->
         {[field |-> <<"version", "when">>, default |-> IsoString(t)],
          [field |-> <<"version", "by", "displayName">>, default |-> Str("Unknown")]}
    [] k = "page" ->
         {[field |-> <<"version", "when">>, default |-> IsoString(t)],
          [field |-> <<"history", "createdDate">>, default |-> IsoString(t)],
          [field |-> <<"version", "by", "displayName">>, default |-> Str("Unknown")],
          [field |-> <<"history", "createdBy", "displayName">>,
           default |-> Str("Unknown")],
          [field |-> <<"status">>, default |-> Str("current")],
          [field |-> <<"version", "number">>, default |-> Num(1)]}
    [] OTHER -> {}

\* C9: whenever the normalizer returns a record for a raw object in which
\* every alias of an attribute is absent or null, the canonical field holds
\* the documented default: the time of the call for created/updated
\* timestamps, "Unknown" for comment and page version/history author names
\* and for the issue status name, [] for issue labels, "Task" for the issue
\* type, "current" for the page status and 1 for the page version number.
C9_DocumentedDefaults ==
  (pc \in {"normalized", "repeated"} /\ Returned(Latest)) =>
    \A d \in DocumentedDefaults(kind, calledAt) :
      \A a \in Attributes(kind, raw) :
        (a.field = d.field /\ \A i \in 1..Len(a.vals) : Nullish(a.vals[i]))
        => At(Latest, d.field) = d.default

\* an empty issue normalized a second time, later, carries the time of that
\* call and the other documented defaults
C9_Witness ==
  /\ pc = "repeated"
  /\ kind = "issue"
  /\ raw = Obj(EmptyRec)
  /\ calledAt > 0
  /\ At(out2, <<"fields", "created">>) = IsoString(calledAt)
  /\ At(out2, <<"fields", "issuetype", "name">>) = Str("Task")

\* the item array of an upstream search response: its first list property
\* that is present and non-null, none when it has no such property
UpstreamItems(k, r) ==
  LET vals == IF k = "issueSearch"
              THEN <<Prop(r, "issues"), Prop(r, "data"), Prop(r, "results")>>
              ELSE <<Prop(r, "pages"), Prop(r, "data"), Prop(r, "results")>>
  IN IF FirstProvided(vals) = 0 THEN NONE
     ELSE vals[FirstProvided(vals)]

ResultItems(k, v) ==
  IF k = "issueSearch" THEN At(v, <<"issues">>) ELSE At(v, <<"results">>)

\* C10 as stated: normalizing a search response whose item array is empty
\* raises no error and returns an empty item sequence with size/total 0.
C10_EmptySearchIsZero ==
  (pc # "idle" /\ kind \in SearchKinds /\ UpstreamItems(kind, raw) = Arr(<<>>)) =>
    /\ Returned(out)
    /\ ResultItems(kind, out) = Arr(<<>>)
    /\ kind = "issueSearch" => At(out, <<"total">>) = Num(0)
    /\ kind = "pageSearch" => At(out, <<"size">>) = Num(0)

\* C10 as amended: normalizing a search response whose item array is empty
\* raises no error and returns an empty item sequence; the page result's
\* size is 0, and the issue result's total is the total the upstream
\* reports when that is non-zero, and 0 otherwise.
C10_EmptySearchAmended ==
  (pc # "idle" /\ kind \in SearchKinds /\ UpstreamItems(kind, raw) = Arr(<<>>)) =>
    /\ Returned(out)
    /\ ResultItems(kind, out) = Arr(<<>>)
    /\ kind = "issueSearch" =>
         At(out, <<"total">>) =
           (IF Truthy(Prop(raw, "total")) THEN Prop(raw, "total") ELSE Num(0))
    /\ kind = "pageSearch" => At(out, <<"size">>) = Num(0)

\* an issue search past the last match: no items, upstream total 7
C10_Witness ==
  /\ pc = "normalized"
  /\ kind = "issueSearch"
  /\ raw = Obj([issues |-> Arr(<<>>), total |-> Num(7)])
  /\ At(out, <<"issues">>) = Arr(<<>>)
  /\ At(out, <<"total">>) = Num(7)

-----------------------------------------------------------------------------
(* Strings of the query degraders: sequences of one-character strings *)

UpperCase == <<"A", "B", "C", "D", "E", "F", "G", "H", "I", "J", "K", "L", "M", "N", "O", "P", "Q", "R", "S", "T", "U", "V", "W", "X", "Y", "Z">>

LowerCase == <<"a", "b", "c", "d", "e", "f", "g", "h", "i", "j", "k", "l", "m", "n", "o", "p", "q", "r", "s", "t", "u", "v", "w", "x", "y", "z">>

Digits == {"0", "1", "2", "3", "4", "5", "6", "7", "8", "9"}

\* one character of String.prototype.toLowerCase, and what the i flag of a
\* regular expression compares
ToLowerChar(ch) ==
  IF \E i \in 1..26 : UpperCase[i] = ch
  THEN LowerCase[CHOOSE i \in 1..26 : UpperCase[i] = ch]
  ELSE ch

\* \s
IsSpace(ch) == ch \in {" ", "\t", "\n"}

\* \w
IsWordChar(ch) ==
  \/ \E i \in 1..26 : ch \in {UpperCase[i], LowerCase[i]}
  \/ ch \in Digits
  \/ ch = "_"

\* ['"]
IsQuote(ch) == ch \in {"'", "\""}

\* the literal word matches at position i of s, letter case ignored
MatchesAt(s, i, word) ==
  /\ i >= 1
  /\ i + Len(word) - 1 <= Len(s)
  /\ \A k \in 1..Len(word) : ToLowerChar(s[i + k - 1]) = word[k]

\* \s* from position i: the position after the longest run of whitespace
SkipSpaces(s, i) ==
  CHOOSE j \in i..(Len(s) + 1) :
    /\ \A k \in i..(j - 1) : IsSpace(s[k])
    /\ j = Len(s) + 1 \/ ~IsSpace(s[j])

\* [^\s]+ from position i: the last position of the longest run of
\* non-whitespace characters (i - 1 when the run is empty)
NonSpaceRunEnd(s, i) ==
  CHOOSE j \in (i - 1)..Len(s) :
    /\ \A k \in i..j : ~IsSpace(s[k])
    /\ j = Len(s) \/ IsSpace(s[j + 1])

\* [^"']+ from position i: the last position of the longest run of
\* characters other than quotes (i - 1 when the run is empty)
NonQuoteRunEnd(s, i) ==
  CHOOSE j \in (i - 1)..Len(s) :
    /\ \A k \in i..j : ~IsQuote(s[k])
    /\ j = Len(s) \/ IsQuote(s[j + 1])

\* the quotes of a captured value left in place
StripQuotes_Kept(s) == s

\* .replace(/['"]/g, '')
StripQuotes(s) == SelectSeq(s, LAMBDA ch : ~IsQuote(ch))

kwProject == <<"p", "r", "o", "j", "e", "c", "t">>
kwStatus == <<"s", "t", "a", "t", "u", "s">>
kwAssignee == <<"a", "s", "s", "i", "g", "n", "e", "e">>
litCurrentuser == <<"c", "u", "r", "r", "e", "n", "t", "u", "s", "e", "r", "(", ")">>
litMe == <<"m", "e">>

-----------------------------------------------------------------------------
(* JiraClient.parseJqlToFilters *)

\* /<field>\s*=\s*([^\s]+)/i tried at position i: the position where the
\* captured group starts, 0 when the pattern does not match at i
JqlValueStart(s, i, field) ==
  IF ~MatchesAt(s, i, field) THEN 0
  ELSE LET e == SkipSpaces(s, i + Len(field))
       IN IF e > Len(s) \/ s[e] # "=" THEN 0
          ELSE LET v == SkipSpaces(s, e + 1)
               IN IF v > Len(s) THEN 0 ELSE v

\* jql.match(/<field>\s*=\s*([^\s]+)/i): group 1 of the leftmost match, null
\* when there is no match
JqlCapture(s, field) ==
  IF \E i \in 1..Len(s) : JqlValueStart(s, i, field) # 0
  THEN LET i == CHOOSE i \in 1..Len(s) :
                  /\ JqlValueStart(s, i, field) # 0
                  /\ \A j \in 1..(i - 1) : JqlValueStart(s, j, field) = 0
           v == JqlValueStart(s, i, field)
       IN Str(SubSeq(s, v, NonSpaceRunEnd(s, v)))
  ELSE NULL

\* .replace(/"/g, '')
StripDoubleQuotes(s) == SelectSeq(s, LAMBDA ch : ch # "\"")

\* filters.project
JqlProject(jql) ==
  LET m == JqlCapture(jql, kwProject)
  IN IF m[1] = "null" THEN UNDEF ELSE Str(StripQuotes(m[2]))

\* filters.status
JqlStatus(jql) ==
  LET m == JqlCapture(jql, kwStatus)
  IN IF m[1] = "null" THEN UNDEF ELSE Str(StripDoubleQuotes(StripQuotes(m[2])))

\* filters.assignee
JqlAssignee(jql) ==
  LET m == JqlCapture(jql, kwAssignee)
  IN IF m[1] = "null" THEN UNDEF
     ELSE LET assignee == StripQuotes(m[2])
          IN IF assignee = litCurrentuser THEN Str(litMe) ELSE Str(assignee)

\* the filters object: a key is set only under its if (match)
parseJqlToFilters(jql) ==
  LET vals == [project |-> JqlProject(jql),
               status |-> JqlStatus(jql),
               assignee |-> JqlAssignee(jql)]
      keys == {k \in DOMAIN vals : vals[k][1] # "undefined"}
  IN Obj([k \in keys |-> vals[k]])

-----------------------------------------------------------------------------
(* ConfluenceClient.parseCqlToSimpleQuery *)

kwAnd == <<"a", "n", "d">>
kwOr == <<"o", "r">>
kwNot == <<"n", "o", "t">>
kwSpace == <<"s", "p", "a", "c", "e">>
kwType == <<"t", "y", "p", "e">>
kwTitle == <<"t", "i", "t", "l", "e">>
kwText == <<"t", "e", "x", "t">>

\* /\b(and|or|not)\b/i tried at position i: the length of the keyword
\* matched, 0 when the pattern does not match at i
BooleanWordAt(s, i) ==
  LET starts == i = 1 \/ ~IsWordChar(s[i - 1])
      whole(w) == /\ MatchesAt(s, i, w)
                  /\ (i + Len(w) > Len(s) \/ ~IsWordChar(s[i + Len(w)]))
  IN IF ~starts THEN 0
     ELSE IF whole(kwAnd) THEN Len(kwAnd)
     ELSE IF whole(kwOr) THEN Len(kwOr)
     ELSE IF whole(kwNot) THEN Len(kwNot)
     ELSE 0

\* cql.replace(/\b(and|or|not)\b/gi, ' ') from position i on
RECURSIVE ReplaceBooleansFrom(_, _)
ReplaceBooleansFrom(s, i) ==
  IF i > Len(s) THEN <<>>
  ELSE LET n == BooleanWordAt(s, i)
       IN IF n > 0 THEN <<" ">> \o ReplaceBooleansFrom(s, i + n)
          ELSE <<s[i]>> \o ReplaceBooleansFrom(s, i + 1)

\* (space|type|title|text) tried at position i: the length of the field
\* name matched, 0 when none matches
CqlFieldLenAt(s, i) ==
  IF MatchesAt(s, i, kwSpace) THEN Len(kwSpace)
  ELSE IF MatchesAt(s, i, kwType) THEN Len(kwType)
  ELSE IF MatchesAt(s, i, kwTitle) THEN Len(kwTitle)
  ELSE IF MatchesAt(s, i, kwText) THEN Len(kwText)
  ELSE 0

NoClause == [from |-> 0, to |-> 0, end |-> 0]

\* /(space|type|title|text)\s*=\s*["']?([^"']+)["']?/i tried at position i:
\* the span from..to of group 2 and the last position end of the match.
\* \s* and ["']? take as much as they can; when nothing but a quote or the
\* end of the string follows them, \s* gives back one whitespace character,
\* which [^"']+ then takes as the value.
CqlClauseAt(s, i) ==
  LET n == CqlFieldLenAt(s, i)
      e == SkipSpaces(s, i + n)
      q == SkipSpaces(s, e + 1)
      closing(j) == IF j + 1 <= Len(s) /\ IsQuote(s[j + 1]) THEN j + 1 ELSE j
      group(f) == [from |-> f, to |-> NonQuoteRunEnd(s, f),
                   end |-> closing(NonQuoteRunEnd(s, f))]
  IN IF n = 0 \/ e > Len(s) THEN NoClause
     ELSE IF s[e] # "=" THEN NoClause
     ELSE IF q <= Len(s) /\ ~IsQuote(s[q]) THEN group(q)
     ELSE IF q + 1 <= Len(s) /\ ~IsQuote(s[q + 1]) THEN group(q + 1)
     ELSE IF q > e + 1 THEN group(q - 1)
     ELSE NoClause

\* query.replace(/(space|type|title|text)\s*=\s*["']?([^"']+)["']?/gi, '$2')
\* from position i on
RECURSIVE ReplaceClausesFrom(_, _)
ReplaceClausesFrom(s, i) ==
  IF i > Len(s) THEN <<>>
  ELSE LET m == CqlClauseAt(s, i)
       IN IF m.end > 0
          THEN SubSeq(s, m.from, m.to) \o ReplaceClausesFrom(s, m.end + 1)
          ELSE <<s[i]>> \o ReplaceClausesFrom(s, i + 1)

\* the string handed to split(): the query after the two replacements
CqlIntermediate(cql) ==
  ReplaceClausesFrom(ReplaceBooleansFrom(cql, 1), 1)

\* query.split(): without a separator the array holds the whole string
SplitNoSeparator(s) == <<s>>

\* terms.join(' ')
RECURSIVE JoinWithSpace(_)
JoinWithSpace(terms) ==
  IF terms = <<>> THEN <<>>
  ELSE IF Len(terms) = 1 THEN terms[1]
  ELSE terms[1] \o <<" ">> \o JoinWithSpace(Tail(terms))

parseCqlToSimpleQuery(cql) ==
  LET terms == SplitNoSeparator(CqlIntermediate(cql))
  IN Str(JoinWithSpace(SelectSeq(terms, LAMBDA term : Len(term) > 2)))

-----------------------------------------------------------------------------
(* Inputs of the degraders: queries written as clauses *)

MaxClauses == 2    \* most clauses in one query
MaxPad == 1        \* most whitespace characters on each side of an operator

\* a clause: field, operator, the quote around the value ("" for none), value
Clause(field, op, quote, value) ==
  [field |-> field, op |-> op, quote |-> quote, value |-> value]

JqlClauses ==
  {Clause(<<"p", "r", "o", "j", "e", "c", "t">>,
          <<"=">>, <<>>,
          <<"D", "E", "M", "O">>),
   Clause(<<"P", "R", "O", "J", "E", "C", "T">>,
          <<"=">>, <<"\"">>,
          <<"D", "e", "m", "o">>),
   Clause(<<"P", "r", "o", "j", "e", "c", "t">>,
          <<"=">>, <<"'">>,
          <<"s", "t", "a", "t", "u", "s">>),
   Clause(<<"s", "t", "a", "t", "u", "s">>,
          <<"=">>, <<>>,
          <<"O", "p", "e", "n">>),
   Clause(<<"S", "t", "a", "t", "u", "s">>,
          <<"=">>, <<"\"">>,
          <<"O", "p", "e", "n">>),
   Clause(<<"S", "T", "A", "T", "U", "S">>,
          <<"=">>, <<"'">>,
          <<"d", "o", "n", "e">>),
   Clause(<<"s", "t", "a", "t", "u", "s">>,
          <<"=">>, <<"\"">>,
          <<"T", "o", " ", "D", "o">>),
   Clause(<<"a", "s", "s", "i", "g", "n", "e", "e">>,
          <<"=">>, <<>>,
          <<"c", "u", "r", "r", "e", "n", "t", "U", "s", "e", "r", "(", ")">>),
   Clause(<<"a", "s", "s", "i", "g", "n", "e", "e">>,
          <<"=">>, <<>>,
          <<"c", "u", "r", "r", "e", "n", "t", "u", "s", "e", "r", "(", ")">>),
   Clause(<<"A", "S", "S", "I", "G", "N", "E", "E">>,
          <<"=">>, <<"\"">>,
          <<"b", "o", "b">>),
   Clause(<<"p", "r", "i", "o", "r", "i", "t", "y">>,
          <<"=">>, <<>>,
          <<"H", "i", "g", "h">>),
   Clause(<<"s", "u", "b", "p", "r", "o", "j", "e", "c", "t">>,
          <<"=">>, <<>>,
          <<"X">>),
   Clause(<<"p", "r", "o", "j", "e", "c", "t">>,
          <<"!", "=">>, <<>>,
          <<"D", "E", "M", "O">>),
   Clause(<<"s", "t", "a", "t", "u", "s">>,
          <<"~">>, <<>>,
          <<"O", "p", "e", "n">>)}

CqlClauses ==
  {Clause(<<"s", "p", "a", "c", "e">>,
          <<"=">>, <<>>,
          <<"D", "E", "V">>),
   Clause(<<"t", "y", "p", "e">>,
          <<"=">>, <<>>,
          <<"p", "a", "g", "e">>),
   Clause(<<"s", "p", "a", "c", "e">>,
          <<"=">>, <<"\"">>,
          <<"D", "E", "V">>),
   Clause(<<"t", "y", "p", "e">>,
          <<"=">>, <<"'">>,
          <<"p", "a", "g", "e">>),
   Clause(<<"T", "I", "T", "L", "E">>,
          <<"=">>, <<"\"">>,
          <<"M", "y", " ", "P", "a", "g", "e">>),
   Clause(<<"t", "e", "x", "t">>,
          <<"~">>, <<"\"">>,
          <<"i", "s">>),
   Clause(<<"l", "a", "b", "e", "l">>,
          <<"=">>, <<>>,
          <<"x">>),
   Clause(<<"t", "i", "t", "l", "e">>,
          <<"~">>, <<>>,
          <<"n", "o", "t", "e", "s">>),
   Clause(<<"t", "i", "t", "l", "e">>,
          <<"=">>, <<"\"">>,
          <<"o", "r">>)}

\* what stands between two clauses
Joiners == {<<"A", "N", "D">>, <<"O", "R">>, <<"a", "n", "d", " ", "n", "o", "t">>}

\* the queries of one to MaxClauses clauses over a set of clauses
Queries(clauses) ==
  UNION {{[clauses |-> cl, join |-> j, pad |-> p] :
            cl \in [1..n -> clauses],
            j \in (IF n = 1 THEN {<<"A", "N", "D">>} ELSE Joiners),
            p \in 0..MaxPad} :
         n \in 1..MaxClauses}

Pad(n) == [i \in 1..n |-> " "]

RenderClause(c, p) ==
  c.field \o Pad(p) \o c.op \o Pad(p) \o c.quote \o c.value \o c.quote

\* the text of a query
RECURSIVE RenderFrom(_, _)
RenderFrom(q, i) ==
  IF i > Len(q.clauses) THEN <<>>
  ELSE (IF i = 1 THEN <<>> ELSE <<" ">> \o q.join \o <<" ">>)
       \o RenderClause(q.clauses[i], q.pad) \o RenderFrom(q, i + 1)

Render(q) == RenderFrom(q, 1)

DegraderInit ==
  /\ kind \in {"issueQuery", "pageQuery"}
  /\ raw \in (IF kind = "issueQuery" THEN Queries(JqlClauses)
              ELSE Queries(CqlClauses))
  /\ args = NoArgs
  /\ now = 0
  /\ pc = "idle"
  /\ out = NONE
  /\ out2 = NONE
  /\ calledAt = 0
  /\ requests = <<>>

\* searchIssues in custom mode degrades the issue query
DegradeIssueQuery ==
  /\ pc = "idle"
  /\ kind = "issueQuery"
  /\ out' = parseJqlToFilters(Render(raw))
  /\ pc' = "degraded"
  /\ UNCHANGED <<kind, raw, args, now, out2, calledAt, requests>>

\* searchContent in custom mode degrades the page query
DegradePageQuery ==
  /\ pc = "idle"
  /\ kind = "pageQuery"
  /\ out' = parseCqlToSimpleQuery(Render(raw))
  /\ pc' = "degraded"
  /\ UNCHANGED <<kind, raw, args, now, out2, calledAt, requests>>

DegraderNext == DegradeIssueQuery \/ DegradePageQuery

DegraderSpec == DegraderInit /\ [][DegraderNext]_vars

-----------------------------------------------------------------------------
(* Vocabulary of the degrader properties *)

LowerAll(s) == [i \in 1..Len(s) |-> ToLowerChar(s[i])]

HasSpace(s) == \E i \in 1..Len(s) : IsSpace(s[i])

\* clause c tests field name (letter case ignored) for equality
IsEquality(c, name) == LowerAll(c.field) = name /\ c.op = <<"=">>

\* the whitespace-separated words of s from position i on
RECURSIVE WordsFrom(_, _)
WordsFrom(s, i) ==
  LET b == SkipSpaces(s, i)
  IN IF b > Len(s) THEN <<>>
     ELSE <<SubSeq(s, b, NonSpaceRunEnd(s, b))>>
          \o WordsFrom(s, NonSpaceRunEnd(s, b) + 1)

\* the whitespace-separated words of s that are longer than two characters
LongWords(s) == SelectSeq(WordsFrom(s, 1), LAMBDA w : Len(w) > 2)

Degraded(k) == pc = "degraded" /\ kind = k

-----------------------------------------------------------------------------
(* Properties of the degraders *)

\* C11: degrading the issue query `project = P AND status = S`, for
\* single-token values P and S (bare or in single or double quotes, the
\* keywords in any letter case), yields exactly {project: P, status: S}: the
\* quotes are removed and the letter case of the values is kept.
C11_ProjectAndStatus ==
  (/\ Degraded("issueQuery")
   /\ Len(raw.clauses) = 2
   /\ LowerAll(raw.join) = kwAnd
   /\ IsEquality(raw.clauses[1], kwProject)
   /\ IsEquality(raw.clauses[2], kwStatus)
   /\ ~HasSpace(raw.clauses[1].value)
   /\ ~HasSpace(raw.clauses[2].value))
  => out = Obj([project |-> Str(raw.clauses[1].value),
                status |-> Str(raw.clauses[2].value)])

\* PROJECT = "Demo" AND Status = "Open" has been degraded to
\* {project: "Demo", status: "Open"}
C11_Witness ==
  /\ Degraded("issueQuery")
  /\ Render(raw) = <<"P", "R", "O", "J", "E", "C", "T", " ", "=", " ", "\"", "D", "e", "m", "o", "\"", " ", "A", "N", "D", " ", "S", "t", "a", "t", "u", "s", " ", "=", " ", "\"", "O", "p", "e", "n", "\"">>
  /\ out = Obj([project |-> Str(<<"D", "e", "m", "o">>), status |-> Str(<<"O", "p", "e", "n">>)])

\* C12: degrading an issue query that consists of the clause
\* `assignee = currentUser()`, the function name in any letter case, yields
\* {assignee: "me"}.
C12_CurrentUserIsMe ==
  (/\ Degraded("issueQuery")
   /\ Len(raw.clauses) = 1
   /\ IsEquality(raw.clauses[1], kwAssignee)
   /\ LowerAll(raw.clauses[1].value) = litCurrentuser)
  => out = Obj([assignee |-> Str(litMe)])

\* C13: when the first equality clause on status of an issue query has a
\* quoted value that contains whitespace, the degraded status is the whole
\* value between the quotes.
C13_QuotedValueWhole ==
  Degraded("issueQuery") =>
    \A i \in 1..Len(raw.clauses) :
      (/\ IsEquality(raw.clauses[i], kwStatus)
       /\ raw.clauses[i].quote # <<>>
       /\ HasSpace(raw.clauses[i].value)
       /\ \A j \in 1..(i - 1) : ~IsEquality(raw.clauses[j], kwStatus))
      => At(out, <<"status">>) = Str(raw.clauses[i].value)

\* C14: degrading an issue query raises no error and returns a mapping
\* whose keys are among project, status and assignee, a key being present
\* exactly when the query has an equality clause on that field; clauses on
\* other fields, clauses with another operator and the words between the
\* clauses contribute no key.
C14_KeysAreEqualityClauses ==
  Degraded("issueQuery") =>
    /\ Returned(out)
    /\ DOMAIN out[2] \subseteq {"project", "status", "assignee"}
    /\ ("project" \in DOMAIN out[2]) <=>
         \E i \in 1..Len(raw.clauses) : IsEquality(raw.clauses[i], kwProject)
    /\ ("status" \in DOMAIN out[2]) <=>
         \E i \in 1..Len(raw.clauses) : IsEquality(raw.clauses[i], kwStatus)
    /\ ("assignee" \in DOMAIN out[2]) <=>
         \E i \in 1..Len(raw.clauses) : IsEquality(raw.clauses[i], kwAssignee)

\* C15: the query the page degrader returns is the sequence of the
\* whitespace-separated tokens of its intermediate string that are longer
\* than two characters, joined by single spaces.
C15_ShortTokensDropped ==
  Degraded("pageQuery") =>
    out = Str(JoinWithSpace(LongWords(CqlIntermediate(Render(raw)))))

\* the clauses of q from the i-th on are equality clauses on space, type,
\* title or text
KnownEqualitiesFrom(q, i) ==
  \A j \in i..Len(q.clauses) :
    \E name \in {kwSpace, kwType, kwTitle, kwText} :
      IsEquality(q.clauses[j], name)

\* the words, longer than two characters, of the values of the clauses of q
\* from the i-th on
RECURSIVE ValueWordsFrom(_, _)
ValueWordsFrom(q, i) ==
  IF i > Len(q.clauses) THEN <<>>
  ELSE LongWords(q.clauses[i].value) \o ValueWordsFrom(q, i + 1)

\* s has a whole word and, or or not, in any letter case
HasBooleanWord(s) == \E i \in 1..Len(s) : BooleanWordAt(s, i) > 0

\* C16: the query the page degrader returns has no whole word and, or or
\* not; and when every clause is an equality clause on space, type, title or
\* text whose value has none of these words, only the values are left: the
\* output has no `=`, and its words are the words of the values, clause by
\* clause (words of one or two characters set aside).
C16_OnlyValuesLeft ==
  Degraded("pageQuery") =>
    /\ ~HasBooleanWord(out[2])
    /\ (/\ KnownEqualitiesFrom(raw, 1)
        /\ \A i \in 1..Len(raw.clauses) : ~HasBooleanWord(raw.clauses[i].value))
       => /\ \A i \in 1..Len(out[2]) : out[2][i] # "="
          /\ LongWords(out[2]) = ValueWordsFrom(raw, 1)

-----------------------------------------------------------------------------
(* Client operations of JiraClient and ConfluenceClient *)

\* the operations of JiraClient and of ConfluenceClient
Ops ==
  {"getIssue", "searchIssues", "createIssue", "updateIssue", "addComment",
   "getComments", "getProjects", "getTransitions", "transitionIssue"}
  \cup
  {"getPage", "getPageByTitle", "searchContent", "createPage", "updatePage",
   "deletePage", "getSpaces", "getSpace", "getPageChildren",
   "Confluence.addComment", "Confluence.getComments"}

\* issue keys, page ids and space keys a caller passes
Ids == {"DEV", "OPS"}

\* page titles a caller passes
Titles == {"Home", "home", "News"}

\* String.prototype.toLowerCase on the titles
ToLowerCase(s) == IF s = "Home" THEN "home" ELSE IF s = "News" THEN "news" ELSE s

\* operations whose first parameter is an issue key, page id, space key or
\* project key
TakesId(op) ==
  op \notin {"searchIssues", "getProjects", "searchContent", "getSpaces"}

\* the updateData a caller passes to updateIssue: each field omitted or
\* supplied, a text field also as the empty string and labels also as the
\* empty list
Updates ==
  [summary : {UNDEF, Str(""), Str("S")},
   description : {UNDEF, Str(""), Str("D")},
   assignee : {UNDEF, Str("ann")},
   priority : {UNDEF, Str("High")},
   labels : {UNDEF, Arr(<<>>), Arr(<<Str("l")>>)}]

\* config.useCustomApi and the caller's arguments of one invocation
ClientArgs(op) ==
  {[mode |-> m, id |-> i, title |-> t, limit |-> Num(10), start |-> Num(0),
    update |-> u] :
     m \in {"standard", "custom"},
     i \in (IF TakesId(op) THEN Ids ELSE {""}),
     t \in (IF op \in {"getPageByTitle", "createPage"} THEN Titles ELSE {""}),
     u \in (IF op = "updateIssue" THEN Updates
            ELSE {[f \in {"summary", "description", "assignee", "priority",
                          "labels"} |-> UNDEF]})}

\* error.message of a failed axios request
UpstreamErrors ==
  {"Request failed with status code 404", "timeout of 30000ms exceeded"}

\* a raised Error with its message, a sequence of text pieces
Throw(message) == <<"throw", "Error", message>>

\* error.message of a caught error
MessageOf(e) ==
  IF Len(e) = 3 THEN e[3] ELSE <<"TypeError: cannot read properties">>

\* a request as sent: params and body are NONE where the model does not
\* follow them
Request(method, url) ==
  [method |-> method, url |-> url, params |-> NONE, body |-> NONE,
   reply |-> <<"pending">>]

\* the body of the request updateIssue sends: a field of updateData is
\* copied when its value is truthy; the custom branch sends summary under
\* the name title, the standard branch wraps the description in a document
\* and assignee and priority in { name } and sends { fields }
UpdateBody(mode, u) ==
  LET supplied == {f \in DOMAIN u : Truthy(u[f])}
      document(text) ==
        Obj([type |-> Str("doc"), version |-> Num(1),
             content |-> Arr(<<Obj([type |-> Str("paragraph"),
                                    content |-> Arr(<<Obj([type |-> Str("text"),
                                                           text |-> text])>>)])>>)])
      field(f) == CASE f = "description" -> document(u[f])
                    [] f \in {"assignee", "priority"} -> Obj([name |-> u[f]])
                    [] OTHER -> u[f]
      custom(f) == IF f = "summary" THEN "title" ELSE f
  IN IF mode = "custom"
     THEN Obj([k \in {custom(f) : f \in supplied} |->
                 u[IF k = "title" THEN "summary" ELSE k]])
     ELSE Obj([fields |-> Obj([f \in supplied |-> field(f)])])

\* the request an operation sends first
FirstRequest(op, a) ==
  LET custom == a.mode = "custom"
      id == a.id
  IN CASE op = "getIssue" ->
            Request("GET", IF custom THEN <<"/v1/issues/", id>>
                           ELSE <<"/issue/", id>>)
       [] op = "searchIssues" ->
            IF custom THEN Request("GET", <<"/v1/issues/search">>)
            ELSE Request("POST", <<"/search">>)
       [] op = "createIssue" ->
            Request("POST", IF custom THEN <<"/v1/issues">> ELSE <<"/issue">>)
       [] op = "updateIssue" ->
            [Request("PUT", IF custom THEN <<"/v1/issues/", id>>
                            ELSE <<"/issue/", id>>)
               EXCEPT !.body = UpdateBody(a.mode, a.update)]
       [] op = "addComment" ->
            Request("POST", IF custom THEN <<"/v1/issues/", id, "/comments">>
                            ELSE <<"/issue/", id, "/comment">>)
       [] op = "getComments" ->
            Request("GET", IF custom THEN <<"/v1/issues/", id, "/comments">>
                           ELSE <<"/issue/", id, "/comment">>)
       [] op = "getProjects" ->
            Request("GET", IF custom THEN <<"/v1/projects">> ELSE <<"/project">>)
       [] op = "getTransitions" ->
            Request("GET", IF custom THEN <<"/v1/issues/", id, "/transitions">>
                           ELSE <<"/issue/", id, "/transitions">>)
       [] op = "transitionIssue" ->
            Request("POST", IF custom THEN <<"/v1/issues/", id, "/transitions">>
                            ELSE <<"/issue/", id, "/transitions">>)
       [] op = "getPage" ->
            Request("GET", IF custom THEN <<"/v1/pages/", id>>
                           ELSE <<"/content/", id>>)
       [] op = "getPageByTitle" ->
            IF custom
            THEN [Request("GET", <<"/v1/pages/search">>)
                    EXCEPT !.params = Obj([q |-> Str(a.title), space |-> Str(id),
                                           limit |-> Num(1)])]
            ELSE Request("GET", <<"/content">>)
       [] op = "searchContent" ->
            Request("GET", IF custom THEN <<"/v1/pages/search">>
                           ELSE <<"/content/search">>)
       [] op = "createPage" ->
            Request("POST", IF custom THEN <<"/v1/pages">> ELSE <<"/content">>)
       [] op = "updatePage" ->
            Request("PUT", IF custom THEN <<"/v1/pages/", id>>
                           ELSE <<"/content/", id>>)
       [] op = "deletePage" ->
            Request("DELETE", IF custom THEN <<"/v1/pages/", id>>
                              ELSE <<"/content/", id>>)
       [] op = "getSpaces" ->
            Request("GET", IF custom THEN <<"/v1/spaces">> ELSE <<"/space">>)
       [] op = "getSpace" ->
            Request("GET", IF custom THEN <<"/v1/spaces">> ELSE <<"/space/", id>>)
       [] op = "getPageChildren" ->
            Request("GET", IF custom THEN <<"/v1/pages/", id, "/children">>
                           ELSE <<"/content/", id, "/child/page">>)
       [] op = "Confluence.addComment" ->
            Request("POST", IF custom THEN <<"/v1/pages/", id, "/comments">>
                            ELSE <<"/content">>)
       [] op = "Confluence.getComments" ->
            Request("GET", IF custom THEN <<"/v1/pages/", id, "/comments">>
                           ELSE <<"/content/", id, "/child/comment">>)

\* the requests of a log that the upstream answered with a 2xx response
Succeeded(reqs) == SelectSeq(reqs, LAMBDA r : r.reply[1] = "ok")

\* createIssue returning what the POST answered, without fetching
FetchesCreated_Never(op, a) == FALSE

\* createIssue in standard mode fetches the issue it has created
FetchesCreated(op, a) == op = "createIssue" /\ a.mode = "standard"

\* the operation has a request to send: its first one, or the GET that
\* follows a successful POST /issue
HasNextRequest(op, a, reqs) ==
  \/ Len(Succeeded(reqs)) = 0
  \/ FetchesCreated(op, a) /\ Len(Succeeded(reqs)) = 1

NextRequest(op, a, reqs) ==
  IF Len(Succeeded(reqs)) = 0 THEN FirstRequest(op, a)
  ELSE Request("GET",
               <<"/issue/", JsToString(Prop(Succeeded(reqs)[1].reply[2], "key"))>>)

\* an entity as the upstream returns it
Item == Obj([id |-> Str("1"), key |-> Str("DEV"), title |-> Str("Home")])

\* the property of response.data an operation reads its list from first,
\* "" when it reads no list
ListKey(op, mode) ==
  IF mode = "custom"
  THEN CASE op = "searchIssues" -> "issues"
         [] op \in {"getComments", "Confluence.getComments"} -> "comments"
         [] op = "getProjects" -> "projects"
         [] op = "getTransitions" -> "transitions"
         [] op \in {"getPageByTitle", "searchContent"} -> "pages"
         [] op \in {"getSpaces", "getSpace"} -> "spaces"
         [] op = "getPageChildren" -> "children"
         [] OTHER -> ""
  ELSE CASE op = "getComments" -> "comments"
         [] op = "getTransitions" -> "transitions"
         [] op \in {"getPageByTitle", "getSpaces", "getPageChildren",
                    "Confluence.getComments"} -> "results"
         [] OTHER -> ""

\* response.data of a 2xx response to a request of the operation; a page
\* search by title is also answered with a page that has a name only, first
\* or second in the list
Payloads(op, mode) ==
  LET key == ListKey(op, mode)
      named == Obj([id |-> Str("2"), name |-> Str("News")])
  IN IF key = "" THEN {Item}
     ELSE {Obj(EmptyRec),
           Obj([k \in {key} |-> Arr(<<>>)]),
           Obj([k \in {key} |-> Arr(<<Item>>)])}
          \cup (IF op = "getPageByTitle"
                THEN {Obj([k \in {key} |-> Arr(<<named>>)]),
                      Obj([k \in {key} |-> Arr(<<named, Item>>)])}
                ELSE {})

\* list.map(item => normalizer(item)) for the normalizer of kind k
MapNormalizer(list, k, t) ==
  IF list[1] # "array" THEN TypeError
  ELSE MapItems([i \in 1..Len(list[2]) |-> Call(k, list[2][i], NoArgs, t)])

\* response.data.<first> || response.data.data || []
ListOrData(data, first) ==
  Or(Prop(data, first), Or(Prop(data, "data"), Arr(<<>>)))

\* getPageByTitle comparing the titles as they are
PageByTitleCustom_Exact(data, title, t) ==
  LET pages == Or(Prop(data, "pages"),
                  Or(Prop(data, "data"), Or(Prop(data, "results"), Arr(<<>>))))
  IN IF pages[1] = "array" /\ Len(pages[2]) > 0
     THEN LET page == pages[2][1]
              pageTitle == Or(Prop(page, "title"), Or(Prop(page, "name"), Str("")))
          IN IF Nullish(page) \/ pageTitle[1] # "string" THEN TypeError
             ELSE IF pageTitle[2] = title
                  THEN normalizeCustomPage(page, t)
                  ELSE NULL
     ELSE NULL

\* the custom branch of getPageByTitle after its response
PageByTitleCustom(data, title, t) ==
  LET pages == Or(Prop(data, "pages"),
                  Or(Prop(data, "data"), Or(Prop(data, "results"), Arr(<<>>))))
  IN IF pages[1] = "array" /\ Len(pages[2]) > 0
     THEN LET page == pages[2][1]
              pageTitle == Or(Prop(page, "title"), Or(Prop(page, "name"), Str("")))
          IN IF Nullish(page) \/ pageTitle[1] # "string" THEN TypeError
             ELSE IF ToLowerCase(pageTitle[2]) = ToLowerCase(title)
                  THEN normalizeCustomPage(page, t)
                  ELSE NULL
     ELSE NULL

\* the custom branch of getSpace after getSpaces has returned or raised:
\* what getSpaces raises goes on to the catch of getSpace
SpaceByKeyCustom(spaces, spaceKey) ==
  LET hit(s) == \/ Prop(s, "key") = Str(spaceKey)
                \/ Prop(s, "name") = Str(spaceKey)
  IN IF IsThrow(spaces) THEN spaces
     ELSE IF \E i \in 1..Len(spaces[2]) : hit(spaces[2][i])
     THEN spaces[2][CHOOSE i \in 1..Len(spaces[2]) :
                      /\ hit(spaces[2][i])
                      /\ \A j \in 1..(i - 1) : ~hit(spaces[2][j])]
     ELSE Throw(<<"Space ", spaceKey, " not found">>)

\* getSpaces as called by getSpace: its own catch wraps what it raises
GetSpacesCustom(data, t) ==
  LET spaces == MapNormalizer(ListOrData(data, "spaces"), "space", t)
  IN IF IsThrow(spaces)
     THEN Throw(<<"Failed to get spaces", ": ">> \o MessageOf(spaces))
     ELSE spaces

\* what the try block of an operation evaluates to after the 2xx response
\* with the given data to its last request: the value returned, or the error
\* raised inside the block. In custom mode an operation normalizes the
\* entity or search result of the response, or each item of the list it
\* reads from it, with the normalizer of its kind.
Result(op, a, data, t) ==
  IF a.mode = "custom"
  THEN LET normalizer ==
             CASE op \in {"getIssue", "createIssue"} -> "issue"
               [] op = "searchIssues" -> "issueSearch"
               [] op \in {"addComment", "getComments"} -> "jiraComment"
               [] op = "getProjects" -> "project"
               [] op = "getTransitions" -> "transition"
               [] op \in {"getPage", "createPage", "updatePage",
                          "getPageChildren"} -> "page"
               [] op = "searchContent" -> "pageSearch"
               [] op \in {"getSpaces", "getSpace"} -> "space"
               [] op \in {"Confluence.addComment", "Confluence.getComments"} ->
                    "confluenceComment"
               [] OTHER -> ""
       IN CASE op \in {"updateIssue", "transitionIssue", "deletePage"} -> UNDEF
            [] op \in {"getComments", "getProjects", "getTransitions", "getSpaces",
                       "getPageChildren", "Confluence.getComments"} ->
                 MapNormalizer(ListOrData(data, ListKey(op, a.mode)), normalizer, t)
            [] op = "getPageByTitle" -> PageByTitleCustom(data, a.title, t)
            [] op = "getSpace" -> SpaceByKeyCustom(GetSpacesCustom(data, t), a.id)
            [] OTHER -> Call(normalizer, data, a, t)
  ELSE CASE op \in {"updateIssue", "transitionIssue", "deletePage"} -> UNDEF
         [] op = "getComments" -> Or(Prop(data, "comments"), Arr(<<>>))
         [] op = "getTransitions" -> Or(Prop(data, "transitions"), Arr(<<>>))
         [] op \in {"getSpaces", "getPageChildren", "Confluence.getComments"} ->
              Or(Prop(data, "results"), Arr(<<>>))
         [] op = "getPageByTitle" ->
              LET results == Or(Prop(data, "results"), Arr(<<>>))
              IN IF results[1] = "array" /\ Len(results[2]) > 0
                 THEN results[2][1] ELSE NULL
         [] OTHER -> data

\* the text before ": " in the message of the error an operation raises
Phrase(op, a) ==
  CASE op = "getIssue" -> <<"Failed to get issue ", a.id>>
    [] op = "searchIssues" -> <<"Failed to search issues">>
    [] op = "createIssue" -> <<"Failed to create issue">>
    [] op = "updateIssue" -> <<"Failed to update issue ", a.id>>
    [] op = "addComment" -> <<"Failed to add comment to ", a.id>>
    [] op = "getComments" -> <<"Failed to get comments for ", a.id>>
    [] op = "getProjects" -> <<"Failed to get projects">>
    [] op = "getTransitions" -> <<"Failed to get transitions for ", a.id>>
    [] op = "transitionIssue" -> <<"Failed to transition issue ", a.id>>
    [] op = "getPage" -> <<"Failed to get page ", a.id>>
    [] op = "getPageByTitle" ->
         <<"Failed to get page \"", a.title, "\" in space ", a.id>>
    [] op = "searchContent" -> <<"Failed to search content">>
    [] op = "createPage" -> <<"Failed to create page \"", a.title, "\"">>
    [] op = "updatePage" -> <<"Failed to update page ", a.id>>
    [] op = "deletePage" -> <<"Failed to delete page ", a.id>>
    [] op = "getSpaces" -> <<"Failed to get spaces">>
    [] op = "getSpace" -> <<"Failed to get space ", a.id>>
    [] op = "getPageChildren" -> <<"Failed to get children of page ", a.id>>
    [] op = "Confluence.addComment" -> <<"Failed to add comment to page ", a.id>>
    [] op = "Confluence.getComments" ->
         <<"Failed to get comments for page ", a.id>>

\* the operations whose custom branch has a try/catch of its own that
\* returns [] for whatever is raised inside
Swallows(op, a) ==
  a.mode = "custom" /\ op \in {"getPageChildren", "Confluence.getComments"}

\* the catch of an operation, entered with the message of the caught error
Caught(op, a, message) ==
  IF Swallows(op, a) THEN Arr(<<>>)
  ELSE Throw(Phrase(op, a) \o <<": ">> \o message)

\* error.message as it reaches the catch of the operation when the last
\* request of the log has failed: getIssue (called by createIssue) and
\* getSpaces (called by getSpace) have wrapped it already
FailureMessage(op, a, reqs) ==
  LET last == reqs[Len(reqs)]
  IN IF FetchesCreated(op, a) /\ Len(reqs) > 1
     THEN <<"Failed to get issue ", last.url[2], ": ", last.reply[2]>>
     ELSE IF op = "getSpace" /\ a.mode = "custom"
          THEN <<"Failed to get spaces", ": ", last.reply[2]>>
          ELSE <<last.reply[2]>>

\* what the operation returns or raises once its last request is answered
Completion(op, a, reqs, t) ==
  LET last == reqs[Len(reqs)]
  IN IF last.reply[1] = "failed"
     THEN Caught(op, a, FailureMessage(op, a, reqs))
     ELSE LET r == Result(op, a, last.reply[2], t)
          IN IF IsThrow(r) THEN Caught(op, a, MessageOf(r)) ELSE r

\* config.agent.maxRetries (parseInt(process.env.MAX_RETRIES) || 3)
maxRetries == 3

\* a failed request sent again until maxRetries requests have been sent
AfterFailure_Retry(reqs) == IF Len(reqs) < maxRetries THEN "ready" ELSE "done"

\* where an operation stands once a request has failed: in its catch, which
\* ends the invocation
AfterFailure(reqs) == "done"

ClientInit ==
  /\ kind \in Ops
  /\ args \in ClientArgs(kind)
  /\ raw = NONE
  /\ now = 0
  /\ pc = "ready"
  /\ out = NONE
  /\ out2 = NONE
  /\ calledAt = 0
  /\ requests = <<>>

\* the operation sends its next request and waits for the response
SendRequest ==
  /\ pc = "ready"
  /\ HasNextRequest(kind, args, requests)
  /\ requests' = Append(requests, NextRequest(kind, args, requests))
  /\ pc' = "awaiting"
  /\ UNCHANGED <<kind, raw, args, now, out, out2, calledAt>>

\* the upstream answers 2xx; the operation goes on to its next request or
\* returns
UpstreamSucceeds ==
  /\ pc = "awaiting"
  /\ \E data \in Payloads(kind, args.mode) :
       LET reqs == [requests EXCEPT ![Len(requests)].reply = <<"ok", data>>]
       IN /\ requests' = reqs
          /\ IF HasNextRequest(kind, args, reqs)
             THEN pc' = "ready" /\ out' = out
             ELSE pc' = "done" /\ out' = Completion(kind, args, reqs, now)
  /\ UNCHANGED <<kind, raw, args, now, out2, calledAt>>

\* the request fails (non-2xx response, network error or timeout); the
\* operation ends in its catch
UpstreamFails ==
  /\ pc = "awaiting"
  /\ \E message \in UpstreamErrors :
       LET reqs == [requests EXCEPT ![Len(requests)].reply = <<"failed", message>>]
       IN /\ requests' = reqs
          /\ pc' = AfterFailure(reqs)
          /\ IF AfterFailure(reqs) = "done"
             THEN out' = Caught(kind, args, FailureMessage(kind, args, reqs))
             ELSE out' = out
  /\ UNCHANGED <<kind, raw, args, now, out2, calledAt>>

ClientNext == SendRequest \/ UpstreamSucceeds \/ UpstreamFails

ClientSpec == ClientInit /\ [][ClientNext]_vars

-----------------------------------------------------------------------------
(* Vocabulary of the client properties *)

\* the operation has returned or raised
Done == pc = "done"

\* some request of the invocation has failed
SomeRequestFailed == \E i \in 1..Len(requests) : requests[i].reply[1] = "failed"

\* the message of the upstream error of the request that failed last
UpstreamMessage ==
  requests[CHOOSE i \in 1..Len(requests) :
             /\ requests[i].reply[1] = "failed"
             /\ \A j \in (i + 1)..Len(requests) : requests[j].reply[1] # "failed"
          ].reply[2]

\* the operations of the two clients that take a target id and raise a
\* message with it
TargetOps ==
  {"getIssue", "updateIssue", "addComment", "getComments", "getTransitions",
   "transitionIssue", "getPage", "updatePage", "deletePage", "getSpace",
   "getPageChildren", "Confluence.addComment", "Confluence.getComments"}

\* the message names the operation: it begins with the operation's own
\* wording, which no operation of another name shares
NamesOperation(message, op) ==
  /\ message[1] = Phrase(op, args)[1]
  /\ \A other \in Ops \ {op} : Phrase(other, args) # Phrase(op, args)

-----------------------------------------------------------------------------
(* Properties of the client operations *)

\* C17: when a request of an operation that takes a target id fails, the
\* operation raises an error whose message names the operation, contains
\* the caller's target id and ends with the message of the upstream error.
C17_FailureNamesOperationAndTarget ==
  (Done /\ kind \in TargetOps /\ SomeRequestFailed) =>
    /\ IsThrow(out)
    /\ NamesOperation(MessageOf(out), kind)
    /\ \E i \in 1..Len(MessageOf(out)) : MessageOf(out)[i] = args.id
    /\ MessageOf(out)[Len(MessageOf(out))] = UpstreamMessage

\* C18: in either mode, an operation one of whose requests has failed ends
\* by raising an error, never by returning a result.
C18_FailureIsRaised ==
  (Done /\ SomeRequestFailed) => IsThrow(out)

\* the list a lookup reads from the response to its request
LookedUp ==
  LET data == requests[Len(requests)].reply[2]
  IN IF kind = "getSpace" THEN ListOrData(data, "spaces")
     ELSE IF args.mode = "custom"
          THEN Or(Prop(data, "pages"),
                  Or(Prop(data, "data"), Or(Prop(data, "results"), Arr(<<>>))))
          ELSE Or(Prop(data, "results"), Arr(<<>>))

\* the lookup has been answered 2xx with nothing that matches: an empty
\* result set for getPageByTitle, a space list without the key for getSpace
\* in custom mode
NothingMatches ==
  /\ Done
  /\ requests[Len(requests)].reply[1] = "ok"
  /\ \/ kind = "getPageByTitle" /\ LookedUp = Arr(<<>>)
     \/ /\ kind = "getSpace"
        /\ args.mode = "custom"
        /\ \A i \in 1..Len(LookedUp[2]) :
             /\ Prop(LookedUp[2][i], "key") # Str(args.id)
             /\ Prop(LookedUp[2][i], "name") # Str(args.id)

\* C19: a lookup by title or by key that matches nothing upstream raises no
\* error and returns null or an empty result.
C19_NotFoundIsEmpty ==
  NothingMatches => /\ ~IsThrow(out)
                    /\ out \in {NULL, UNDEF, Arr(<<>>)}

-----------------------------------------------------------------------------
(* Further properties of the search-result normalizers *)

\* C23: a search result returned for an upstream response with an item
\* array holds one normalized item per upstream item, in the upstream
\* order; its start and limit are the caller's arguments; the page
\* result's size is the number of items; the issue result's total is the
\* total the upstream reports when it reports one, and the number of items
\* otherwise.
C23_SearchResultShape ==
  (/\ pc = "normalized"
   /\ kind \in SearchKinds
   /\ Returned(out)
   /\ UpstreamItems(kind, raw) # NONE)
  => LET items == UpstreamItems(kind, raw)[2]
         item == IF kind = "issueSearch" THEN "issue" ELSE "page"
         given == Prop(raw, "total")
     IN /\ ResultItems(kind, out) =
             Arr([i \in 1..Len(items) |-> Call(item, items[i], NoArgs, calledAt)])
        /\ kind = "issueSearch" =>
             /\ At(out, <<"maxResults">>) = args.limit
             /\ At(out, <<"startAt">>) = args.start
             /\ At(out, <<"total">>) =
                  (IF Provided(given) THEN given ELSE Num(Len(items)))
        /\ kind = "pageSearch" =>
             /\ At(out, <<"limit">>) = args.limit
             /\ At(out, <<"start">>) = args.start
             /\ At(out, <<"size">>) = Num(Len(items))

-----------------------------------------------------------------------------
(* Further properties of the client operations *)

\* the first page of the upstream's answer to the page search, NONE when it
\* has none
C28_FirstPage ==
  LET pages == Prop(requests[1].reply[2], "pages")
  IN IF pages[1] = "array" /\ Len(pages[2]) > 0 THEN pages[2][1] ELSE NONE

\* the title of the first page: its title, else its name
C28_FirstTitle ==
  IF Provided(Prop(C28_FirstPage, "title")) THEN Prop(C28_FirstPage, "title")[2]
  ELSE IF Provided(Prop(C28_FirstPage, "name")) THEN Prop(C28_FirstPage, "name")[2]
  ELSE ""

\* the custom page search by title has been answered
C28_Answered ==
  /\ kind = "getPageByTitle"
  /\ args.mode = "custom"
  /\ Done
  /\ ~SomeRequestFailed

\* C28: getPageByTitle in custom mode asks the upstream for a single result
\* and returns the normalized first page when that page's title (its title,
\* else its name) equals the requested title ignoring case, and null
\* otherwise, also when the first page the upstream returns does not match.
C28_TitleMatchIgnoringCase ==
  /\ (kind = "getPageByTitle" /\ args.mode = "custom" /\ Len(requests) > 0)
       => Prop(requests[1].params, "limit") = Num(1)
  /\ C28_Answered =>
       IF /\ C28_FirstPage # NONE
          /\ ToLowerCase(C28_FirstTitle) = ToLowerCase(args.title)
       THEN out = Call("page", C28_FirstPage, NoArgs, now)
       ELSE out = NULL

\* a page found under a title that differs from the requested one in case
\* only
C28_Witness ==
  /\ C28_Answered
  /\ C28_FirstPage # NONE
  /\ C28_FirstTitle # args.title
  /\ out[1] = "object"

\* the log of createIssue in standard mode
C29_Creating == kind = "createIssue" /\ args.mode = "standard"

\* the message of a raised error begins with the given pieces
C29_StartsWith(e, pieces) ==
  /\ IsThrow(e)
  /\ Len(MessageOf(e)) >= Len(pieces)
  /\ SubSeq(MessageOf(e), 1, Len(pieces)) = pieces

\* C29: createIssue in standard mode sends POST /issue and then, only after
\* the POST has succeeded, GET /issue/{key} for the key the POST returned;
\* it returns the issue the GET fetched; if either request fails it raises
\* an error whose message begins with `Failed to create issue: `.
C29_CreateThenFetch ==
  C29_Creating =>
    /\ Len(requests) <= 2
    /\ Len(requests) >= 1 =>
         /\ requests[1].method = "POST"
         /\ requests[1].url = <<"/issue">>
    /\ Len(requests) = 2 =>
         /\ requests[1].reply[1] = "ok"
         /\ requests[2].method = "GET"
         /\ requests[2].url =
              <<"/issue/", JsToString(Prop(requests[1].reply[2], "key"))>>
    /\ (Done /\ ~SomeRequestFailed) =>
         /\ Len(requests) = 2
         /\ out = requests[2].reply[2]
    /\ (Done /\ SomeRequestFailed) =>
         /\ C29_StartsWith(out, <<"Failed to create issue", ": ">>)
         /\ MessageOf(out)[Len(MessageOf(out))] = UpstreamMessage

\* the created issue has been fetched and returned
C29_Witness ==
  /\ C29_Creating
  /\ Done
  /\ Len(requests) = 2
  /\ out[1] = "object"

\* the value the body of the update request carries for a field of
\* updateData, UNDEF when the body does not have the field
C30_Carried(body, mode, f) ==
  IF mode = "custom"
  THEN Prop(body, IF f = "summary" THEN "title" ELSE f)
  ELSE LET v == Prop(Prop(body, "fields"), f)
       IN IF v = UNDEF THEN UNDEF
          ELSE CASE f = "description" ->
                      Prop(Prop(Prop(v, "content")[2][1], "content")[2][1], "text")
                 [] f \in {"assignee", "priority"} -> Prop(v, "name")
                 [] OTHER -> v

\* C30: the body of the request updateIssue sends carries exactly the fields
\* the caller supplied: a field the caller omitted is absent, and a field
\* the caller supplied, the empty string and the empty label list included,
\* is present with the supplied value.
C30_BodyCarriesSuppliedFields ==
  (kind = "updateIssue" /\ Len(requests) > 0)
  => \A f \in DOMAIN args.update :
       C30_Carried(requests[1].body, args.mode, f) = args.update[f]

-----------------------------------------------------------------------------
(* The tool handler of the Jira server *)

\* the tools the server registers, with the client operation each one calls
ToolOperation ==
  [jira_get_issue |-> "getIssue",
   jira_search_issues |-> "searchIssues",
   jira_create_issue |-> "createIssue",
   jira_update_issue |-> "updateIssue",
   jira_add_comment |-> "addComment",
   jira_get_comments |-> "getComments",
   jira_get_projects |-> "getProjects",
   jira_get_transitions |-> "getTransitions",
   jira_transition_issue |-> "transitionIssue"]

\* a handler that answers with the tool's text whatever the client did
ToolAnswer_Always(name, arguments, result) ==
  <<"content",
    CASE name = "jira_update_issue" ->
           <<"Successfully updated issue ", arguments[2].issueKey[2]>>
      [] name = "jira_transition_issue" ->
           <<"Successfully transitioned issue ", arguments[2].issueKey[2]>>
      [] OTHER -> <<"JSON.stringify", result>>>>

\* what the handler answers once the awaited client operation has returned
\* or raised: { content: [{ type: 'text', text }] } with the text of the
\* tool, or, from its catch, new McpError(ErrorCode.InternalError, message)
\* with the message of what was raised
ToolAnswer(name, arguments, result) ==
  IF IsThrow(result)
  THEN <<"throw", "McpError", "InternalError", MessageOf(result)>>
  ELSE <<"content",
         CASE name = "jira_update_issue" ->
                <<"Successfully updated issue ", arguments[2].issueKey[2]>>
           [] name = "jira_transition_issue" ->
                <<"Successfully transitioned issue ", arguments[2].issueKey[2]>>
           [] OTHER -> <<"JSON.stringify", result>>>>

\* a tool call waiting to be handled: raw is request.params (a registered
\* name or one of two that are not; arguments an object, or undefined when
\* the caller sends none) with config.useCustomApi
ServerInit ==
  /\ \E name \in DOMAIN ToolOperation \cup {"jira_delete_issue", "confluence_get_page"},
        custom \in BOOLEAN :
       \E arguments \in
            {Obj([issueKey |-> Str(i), maxResults |-> n, update |-> u]) :
               i \in (IF name \in DOMAIN ToolOperation /\ TakesId(ToolOperation[name])
                      THEN Ids ELSE {""}),
               n \in (IF name = "jira_search_issues" THEN {UNDEF, Num(10)}
                      ELSE {UNDEF}),
               u \in (IF name = "jira_update_issue" THEN Updates
                      ELSE {[f \in {"summary", "description", "assignee",
                                    "priority", "labels"} |-> UNDEF]})}
            \cup {UNDEF} :
         raw = <<"toolCall",
                 [name |-> name, arguments |-> arguments, custom |-> custom]>>
  /\ kind = "tool"
  /\ args = NoArgs
  /\ now = 0
  /\ pc = "called"
  /\ out = NONE
  /\ out2 = NONE
  /\ calledAt = 0
  /\ requests = <<>>

\* the handler runs up to its first await: the default case raises
\* McpError(ErrorCode.MethodNotFound) inside the try, and a case that reads
\* a property of args (all but jira_get_projects) raises a TypeError when
\* there are none; both land in the catch, which raises an InternalError
\* with the same message. Any other case calls its client operation;
\* maxResults || config.maxResultsDefault (50) is the limit of a search.
CallTool ==
  /\ pc = "called"
  /\ LET call == raw[2]
         mode == IF call.custom THEN "custom" ELSE "standard"
     IN IF call.name \notin DOMAIN ToolOperation
        THEN /\ out2' = <<"throw", "McpError", "InternalError",
                          <<"Unknown tool: ", call.name>>>>
             /\ pc' = "answered"
             /\ UNCHANGED <<kind, args>>
        ELSE IF call.name # "jira_get_projects" /\ call.arguments = UNDEF
        THEN /\ out2' = <<"throw", "McpError", "InternalError", MessageOf(TypeError)>>
             /\ pc' = "answered"
             /\ UNCHANGED <<kind, args>>
        ELSE /\ kind' = ToolOperation[call.name]
             /\ args' =
                  IF call.arguments = UNDEF
                  THEN [mode |-> mode, id |-> "", title |-> "", limit |-> Num(0),
                        start |-> Num(0),
                        update |-> [f \in {"summary", "description", "assignee",
                                           "priority", "labels"} |-> UNDEF]]
                  ELSE [mode |-> mode,
                        id |-> call.arguments[2].issueKey[2],
                        title |-> "",
                        limit |-> Or(call.arguments[2].maxResults, Num(50)),
                        start |-> Num(0),
                        update |-> call.arguments[2].update]
             /\ pc' = "ready"
             /\ out2' = out2
  /\ UNCHANGED <<raw, now, out, calledAt, requests>>

\* the awaited client operation has returned or raised; the handler answers
AnswerTool ==
  /\ pc = "done"
  /\ out2' = ToolAnswer(raw[2].name, raw[2].arguments, out)
  /\ pc' = "answered"
  /\ UNCHANGED <<kind, raw, args, now, out, calledAt, requests>>

ServerNext ==
  CallTool \/ SendRequest \/ UpstreamSucceeds \/ UpstreamFails \/ AnswerTool

ServerSpec == ServerInit /\ [][ServerNext]_vars

-----------------------------------------------------------------------------
(* Properties of the tool handler *)

\* the tool call has been answered
Answered == pc = "answered"

\* C25: a tool call whose name is not registered is answered with an error
\* whose code is MethodNotFound, not InternalError, and sends no upstream
\* request.
C25_UnknownToolIsMethodNotFound ==
  (Answered /\ raw[2].name \notin DOMAIN ToolOperation)
  => /\ out2[1] = "throw"
     /\ out2[3] = "MethodNotFound"
     /\ requests = <<>>

\* the call of one of the two tools that answer with a success text
C26_Tool == raw[2].name \in {"jira_update_issue", "jira_transition_issue"}

C26_SuccessText ==
  <<"content",
    <<IF raw[2].name = "jira_update_issue"
      THEN "Successfully updated issue "
      ELSE "Successfully transitioned issue ",
      IF raw[2].arguments = UNDEF THEN "" ELSE raw[2].arguments[2].issueKey[2]>>>>

\* C26: jira_update_issue and jira_transition_issue are answered with
\* `Successfully updated issue K` / `Successfully transitioned issue K` only
\* after the upstream request has succeeded; when the request fails the call
\* is answered with an error that carries the client's message, never with
\* the success text.
C26_SuccessOnlyAfterUpstream ==
  C26_Tool =>
    /\ out2 = C26_SuccessText =>
         /\ Len(requests) = 1
         /\ requests[1].reply[1] = "ok"
    /\ (Answered /\ Len(requests) = 1 /\ requests[1].reply[1] = "ok") =>
         out2 = C26_SuccessText
    /\ (Answered /\ SomeRequestFailed) =>
         /\ out2[1] = "throw"
         /\ out2[4] = MessageOf(out)
         /\ out2[4][Len(out2[4])] = UpstreamMessage

\* an update answered with the success text
C26_Witness ==
  /\ raw[2].name = "jira_update_issue"
  /\ Answered
  /\ out2 = C26_SuccessText

-----------------------------------------------------------------------------
(* Configuration of the two servers: validateConfig and the client           *)
(* constructors. The values of environment variables are strings of         *)
(* characters.                                                              *)

\* the string literals of validateConfig and of the client constructors,
\* and the values the environment variables take
Text ==
  [true |-> <<"t", "r", "u", "e">>,
   false |-> <<"f", "a", "l", "s", "e">>,
   shout |-> <<"T", "R", "U", "E">>,
   one |-> <<"1">>,
   customUrl |-> <<"h", "t", "t", "p", "s", ":", "/", "/", "a", "p", "i", ".", "t", "e", "s", "t">>,
   noScheme |-> <<"a", "p", "i", ".", "t", "e", "s", "t">>,
   baseUrl |-> <<"h", "t", "t", "p", "s", ":", "/", "/", "x", ".", "t", "e", "s", "t">>,
   email |-> <<"a", "n", "n", "@", "x", ".", "t", "e", "s", "t">>,
   name |-> <<"a", "n", "n">>,
   key |-> <<"k">>,
   token |-> <<"t">>,
   customApiUser |-> <<"c", "u", "s", "t", "o", "m", "-", "a", "p", "i", "-", "u", "s", "e", "r">>,
   restApi3 |-> <<"/", "r", "e", "s", "t", "/", "a", "p", "i", "/", "3">>,
   restApi |-> <<"/", "r", "e", "s", "t", "/", "a", "p", "i">>]

\* validateConfig of either server on process.env: the custom branch for
\* USE_CUSTOM_API === 'true' only, then configSchema.parse of the object the
\* branch builds, which returns it or raises a ZodError with the rejected
\* properties. BASE_URL, USERNAME and API_TOKEN stand for JIRA_BASE_URL, ...
\* in the Jira server and CONFLUENCE_BASE_URL, ... in the Confluence server.
validateConfig(env) ==
  LET \* a || b on values of process.env: undefined and '' are falsy
      or(a, b) == IF a[1] = "string" /\ Len(a[2]) > 0 THEN a ELSE b
      letter(ch) == \E i \in 1..26 : ch \in {UpperCase[i], LowerCase[i]}
      \* z.string().url(): new URL(s) succeeds, s begins with a scheme (a
      \* letter, then letters, digits, +, - or .) and a colon, and something
      \* follows
      url(v) ==
        /\ v[1] = "string"
        /\ \E i \in 2..(Len(v[2]) - 1) :
             /\ v[2][i] = ":"
             /\ letter(v[2][1])
             /\ \A j \in 2..(i - 1) :
                  letter(v[2][j]) \/ v[2][j] \in Digits \cup {"+", "-", "."}
      \* z.string().email(): a local part, one @, and a domain with a dot
      email(v) ==
        /\ v[1] = "string"
        /\ \E i \in 2..(Len(v[2]) - 1) :
             /\ v[2][i] = "@"
             /\ \A j \in 1..Len(v[2]) : v[2][j] = "@" => j = i
             /\ \E d \in (i + 2)..(Len(v[2]) - 1) : v[2][d] = "."
      input ==
        IF env.USE_CUSTOM_API = Str(Text.true)
        THEN [baseUrl |-> or(env.CUSTOM_API_BASE_URL, env.BASE_URL),
              username |-> Str(Text.customApiUser),
              apiToken |-> or(env.CUSTOM_API_KEY, Str(<<>>)),
              customApiBaseUrl |-> env.CUSTOM_API_BASE_URL,
              customApiKey |-> env.CUSTOM_API_KEY,
              useCustomApi |-> Bool(TRUE)]
        ELSE [baseUrl |-> env.BASE_URL,
              username |-> env.USERNAME,
              apiToken |-> env.API_TOKEN,
              customApiBaseUrl |-> UNDEF,
              customApiKey |-> UNDEF,
              useCustomApi |-> Bool(FALSE)]
      issues ==
        {f \in DOMAIN input :
           CASE f = "baseUrl" -> ~url(input[f])
             [] f = "username" -> ~email(input[f])
             [] f = "apiToken" -> input[f][1] # "string"
             [] f = "customApiBaseUrl" -> ~(input[f] = UNDEF \/ url(input[f]))
             [] f = "customApiKey" -> ~(input[f] = UNDEF \/ input[f][1] = "string")
             [] OTHER -> FALSE}
  IN IF issues = {} THEN Obj(input) ELSE <<"throw", "ZodError", issues>>

\* a server process about to load its configuration module: raw is
\* process.env as validateConfig reads it. CUSTOM_API_VERSION, LOG_LEVEL and
\* MAX_RESULTS_DEFAULT are unset, so their defaults apply.
ConfigInit ==
  /\ kind \in {"jira", "confluence"}
  /\ \E env \in
          [USE_CUSTOM_API : {UNDEF, Str(Text.true), Str(Text.false),
                             Str(Text.shout), Str(Text.one)},
           CUSTOM_API_BASE_URL : {UNDEF, Str(Text.customUrl), Str(Text.noScheme)},
           CUSTOM_API_KEY : {UNDEF, Str(Text.key)},
           BASE_URL : {UNDEF, Str(Text.baseUrl)},
           USERNAME : {UNDEF, Str(Text.email), Str(Text.name)},
           API_TOKEN : {UNDEF, Str(Text.token)}] :
       raw = <<"env", env>>
  /\ args = NoArgs
  /\ now = 0
  /\ pc = "start"
  /\ out = NONE
  /\ out2 = NONE
  /\ calledAt = 0
  /\ requests = <<>>

\* export const config = validateConfig(): the module load fails when the
\* schema rejects the input
LoadConfig ==
  /\ pc = "start"
  /\ out' = validateConfig(raw[2])
  /\ pc' = IF IsThrow(validateConfig(raw[2])) THEN "failed" ELSE "validated"
  /\ UNCHANGED <<kind, raw, args, now, out2, calledAt, requests>>

\* new JiraClient() / new ConfluenceClient() in the server's constructor:
\* axios.create with the base URL the requests of every operation go to and
\* the way they are authorized
ConstructClient ==
  /\ pc = "validated"
  /\ LET config == out[2]
     IN out2' =
          IF config.useCustomApi = Bool(TRUE)
          THEN [baseURL |-> config.customApiBaseUrl,
                auth |-> <<"Bearer", config.customApiKey>>]
          ELSE [baseURL |-> Str(config.baseUrl[2] \o
                                (IF kind = "jira" THEN Text.restApi3
                                 ELSE Text.restApi)),
                auth |-> <<"Basic", config.username, config.apiToken>>]
  /\ pc' = "constructed"
  /\ UNCHANGED <<kind, raw, args, now, out, calledAt, requests>>

ConfigNext == LoadConfig \/ ConstructClient

ConfigSpec == ConfigInit /\ [][ConfigNext]_vars

-----------------------------------------------------------------------------
(* Properties of the configuration *)

\* the environment selects the custom API completely
C22_CustomSelected ==
  /\ raw[2].USE_CUSTOM_API = Str(Text.true)
  /\ raw[2].CUSTOM_API_BASE_URL = Str(Text.customUrl)
  /\ raw[2].CUSTOM_API_KEY # UNDEF

\* C22: when USE_CUSTOM_API is "true", CUSTOM_API_BASE_URL is a valid URL and
\* CUSTOM_API_KEY is set, validateConfig of either server succeeds with
\* useCustomApi = true, whether or not a username and an API token are set,
\* and the client sends its requests to the custom API; for any other value
\* of USE_CUSTOM_API a configuration that validates is the standard one and
\* the client sends its requests to the standard API.
C22_CustomConfigurationValidates ==
  /\ (pc # "start" /\ C22_CustomSelected) =>
       /\ out[1] = "object"
       /\ out[2].useCustomApi = Bool(TRUE)
       /\ pc = "constructed" => out2.baseURL = Str(Text.customUrl)
  /\ (pc # "start" /\ raw[2].USE_CUSTOM_API # Str(Text.true) /\ out[1] = "object") =>
       /\ out[2].useCustomApi = Bool(FALSE)
       /\ pc = "constructed" =>
            out2.baseURL = Str(raw[2].BASE_URL[2] \o
                               (IF kind = "jira" THEN Text.restApi3
                                ELSE Text.restApi))

-----------------------------------------------------------------------------
(* The agent's entry point: validateConfig and the command loop of main *)

MaxLines == 2      \* lines the user enters in one run

\* a list of required variables that leaves out the OpenAI key
required_Six ==
  <<"JIRA_BASE_URL", "JIRA_USERNAME", "JIRA_API_TOKEN",
    "CONFLUENCE_BASE_URL", "CONFLUENCE_USERNAME", "CONFLUENCE_API_TOKEN">>

\* const required of validateConfig
required ==
  <<"JIRA_BASE_URL", "JIRA_USERNAME", "JIRA_API_TOKEN",
    "CONFLUENCE_BASE_URL", "CONFLUENCE_USERNAME", "CONFLUENCE_API_TOKEN",
    "OPENAI_API_KEY">>

\* main() entered: nothing read, nothing printed; raw is process.env, each
\* variable validateConfig looks at unset, empty or set
AgentInit ==
  /\ kind = "agent"
  /\ \E env \in [{"JIRA_BASE_URL", "JIRA_USERNAME", "JIRA_API_TOKEN",
                  "CONFLUENCE_BASE_URL", "CONFLUENCE_USERNAME",
                  "CONFLUENCE_API_TOKEN", "OPENAI_API_KEY"}
                 -> {UNDEF, Str(""), Str("x")}] :
       raw = <<"env", env>>
  /\ args = <<>>
  /\ now = 0
  /\ pc = "start"
  /\ out = <<>>
  /\ out2 = NONE
  /\ calledAt = 0
  /\ requests = <<>>

\* main() up to rl.prompt(): validateConfig() first, which raises when
\* required.filter(key => !process.env[key]) is not empty; what it raises is
\* caught by main, printed, and ends the process with code 1
Startup ==
  /\ pc = "start"
  /\ LET missing == SelectSeq(required, LAMBDA key : ~Truthy(raw[2][key]))
     IN IF Len(missing) > 0
        THEN /\ out' = <<[stream |-> "stderr",
                          text |-> <<"Failed to start AI Agent:",
                                     "Missing required environment variables: ",
                                     missing>>]>>
             /\ out2' = Num(1)
             /\ pc' = "exited"
        ELSE /\ pc' = "prompting"
             /\ UNCHANGED <<out, out2>>
  /\ UNCHANGED <<kind, raw, args, now, calledAt, requests>>

\* the 'line' listener up to its first await, on input.trim(): exit closes
\* the interface, whose 'close' listener ends the process with code 0; help
\* and the empty line prompt again; any other line calls
\* agent.processCommand and the listener returns to the event loop with the
\* call pending
Line ==
  /\ pc = "prompting"
  /\ Len(args) < MaxLines
  /\ \E input \in {"exit", "help", "", " ", " help", "get DEV-1", "find bugs"} :
       LET command == CASE input = " " -> ""
                        [] input = " help" -> "help"
                        [] OTHER -> input
       IN /\ args' = Append(args, input)
          /\ CASE command = "exit" ->
                    /\ pc' = "exited"
                    /\ out2' = Num(0)
                    /\ UNCHANGED requests
               [] command \in {"help", ""} ->
                    UNCHANGED <<pc, out2, requests>>
               [] OTHER ->
                    /\ requests' = Append(requests,
                                          [line |-> Len(args) + 1,
                                           command |-> command,
                                           reply |-> <<"pending">>])
                    /\ UNCHANGED <<pc, out2>>
  /\ UNCHANGED <<kind, raw, now, out, calledAt>>

\* a pending agent.processCommand settles (it returns its result, or raises
\* again what it caught) and its listener goes on: the result is printed on
\* stdout, an error on stderr
CommandSettles ==
  /\ pc = "prompting"
  /\ \E i \in 1..Len(requests),
        outcome \in {<<"ok", "result">>, <<"failed", "openai error">>} :
       /\ requests[i].reply = <<"pending">>
       /\ requests' = [requests EXCEPT ![i].reply = outcome]
       /\ out' = Append(out,
                        [stream |-> IF outcome[1] = "ok" THEN "stdout" ELSE "stderr",
                         line |-> requests[i].line,
                         text |-> <<outcome[2]>>])
  /\ UNCHANGED <<kind, raw, args, now, pc, out2, calledAt>>

AgentNext == Startup \/ Line \/ CommandSettles

AgentSpec == AgentInit /\ [][AgentNext]_vars

-----------------------------------------------------------------------------
(* Properties of the agent's entry point *)

\* the calls of processCommand that have not settled
C21_InFlight == {i \in 1..Len(requests) : requests[i].reply = <<"pending">>}

\* C21: the command loop is strictly sequential: at most one processCommand
\* call is in flight at any time, and the results are printed in the order
\* in which their commands were entered.
C21_OneCommandAtATime ==
  /\ Cardinality(C21_InFlight) <= 1
  /\ \A i, j \in 1..Len(out) : i < j => out[i].line < out[j].line

\* the seven variables the agent requires
C24_Variables ==
  {"JIRA_BASE_URL", "JIRA_USERNAME", "JIRA_API_TOKEN", "CONFLUENCE_BASE_URL",
   "CONFLUENCE_USERNAME", "CONFLUENCE_API_TOKEN", "OPENAI_API_KEY"}

\* those of them that are not set
C24_Unset == {v \in C24_Variables : raw[2][v] = UNDEF}

\* the variables the startup error names
C24_Named == {out[1].text[3][i] : i \in 1..Len(out[1].text[3])}

\* C24: validateConfig runs before anything else: a line is read and a
\* command dispatched only after it has succeeded; when any of the seven
\* required variables is missing the error printed names every missing
\* variable, the process exits with code 1 and no command is processed.
C24_ValidateFirst ==
  /\ pc = "start" => (args = <<>> /\ requests = <<>> /\ out = <<>>)
  /\ (Len(args) > 0 \/ Len(requests) > 0) => C24_Unset = {}
  /\ (pc # "start" /\ C24_Unset # {}) =>
       /\ pc = "exited"
       /\ out2 = Num(1)
       /\ Len(out) = 1
       /\ out[1].text[2] = "Missing required environment variables: "
       /\ C24_Unset \subseteq C24_Named
       /\ C24_Named \subseteq C24_Variables
       /\ args = <<>>
       /\ requests = <<>>

\* the process has exited with code 1 naming two missing variables
C24_Witness ==
  /\ pc = "exited"
  /\ out2 = Num(1)
  /\ C24_Unset = {"JIRA_API_TOKEN", "OPENAI_API_KEY"}
  /\ C24_Named = C24_Unset

-----------------------------------------------------------------------------
(* AIAgent.executeFunction *)

\* the result of a case of the switch whose integration or processor call
\* has returned (the case's own type with the data) or raised (the catch's
\* { type: 'error', message: error.message })
CaseResult(name, outcome) ==
  LET type == [jira_get_issue |-> "jira_issue",
               jira_search_issues |-> "jira_search",
               jira_create_issue |-> "jira_issue_created",
               jira_add_comment |-> "jira_comment_added",
               confluence_get_page |-> "confluence_page",
               confluence_search_content |-> "confluence_search",
               confluence_create_page |-> "confluence_page_created",
               java_analyze_code |-> "java_analysis",
               java_generate_class |-> "java_code_generated",
               java_write_file |-> "java_file_written"]
  IN IF outcome[1] = "ok"
     THEN Obj([type |-> Str(type[name]), data |-> Str(outcome[2])])
     ELSE Obj([type |-> Str("error"), message |-> Str(<<outcome[2]>>)])

\* executeFunction entered with message.function_call: a name the language
\* model has chosen (the ten of the switch and one it does not have) and the
\* arguments text it has generated
FunctionInit ==
  /\ kind = "function"
  /\ \E name \in {"jira_get_issue", "jira_search_issues", "jira_create_issue",
                  "jira_add_comment", "confluence_get_page",
                  "confluence_search_content", "confluence_create_page",
                  "java_analyze_code", "java_generate_class", "java_write_file",
                  "jira_delete_issue"},
        text \in {"{}", "{\"issueKey\":\"DEV\"}", "null", "{\"issueKey\":\"DEV", ""} :
       raw = <<"functionCall", [name |-> name, arguments |-> text]>>
  /\ args = NoArgs
  /\ now = 0
  /\ pc = "called"
  /\ out = NONE
  /\ out2 = NONE
  /\ calledAt = 0
  /\ requests = <<>>

\* executeFunction up to its first await: JSON.parse stands before the try,
\* so the SyntaxError it raises for text that is not JSON leaves the
\* function; inside the try an unknown name and a property read on null are
\* caught and returned as an error result; the two Java processor cases
\* that do not await return at once
ExecuteFunction ==
  /\ pc = "called"
  /\ LET name == raw[2].name
         text == raw[2].arguments
         parsedArgs ==
           CASE text = "{}" -> Obj(EmptyRec)
             [] text = "{\"issueKey\":\"DEV\"}" -> Obj([issueKey |-> Str("DEV")])
             [] text = "null" -> NULL
             [] OTHER -> <<"throw", "SyntaxError">>
         immediate == {"java_analyze_code", "java_generate_class"}
         awaited == {"jira_get_issue", "jira_search_issues", "jira_create_issue",
                     "jira_add_comment", "confluence_get_page",
                     "confluence_search_content", "confluence_create_page",
                     "java_write_file"}
     IN IF IsThrow(parsedArgs)
        THEN out' = parsedArgs /\ pc' = "settled"
        ELSE IF name \notin awaited \cup immediate
        THEN /\ out' = Obj([type |-> Str("error"),
                            message |-> Str(<<"Unknown function: ", name>>)])
             /\ pc' = "settled"
        ELSE IF Nullish(parsedArgs)
        THEN /\ out' = Obj([type |-> Str("error"),
                            message |-> Str(MessageOf(TypeError))])
             /\ pc' = "settled"
        ELSE IF name \in immediate
        THEN /\ \E outcome \in {<<"ok", "data">>, <<"failed", "Request failed">>} :
                  out' = CaseResult(name, outcome)
             /\ pc' = "settled"
        ELSE out' = out /\ pc' = "awaiting"
  /\ UNCHANGED <<kind, raw, args, now, out2, calledAt, requests>>

\* the awaited integration call returns or raises
IntegrationSettles ==
  /\ pc = "awaiting"
  /\ \E outcome \in {<<"ok", "data">>, <<"failed", "Request failed">>} :
       out' = CaseResult(raw[2].name, outcome)
  /\ pc' = "settled"
  /\ UNCHANGED <<kind, raw, args, now, out2, calledAt, requests>>

FunctionNext == ExecuteFunction \/ IntegrationSettles

FunctionSpec == FunctionInit /\ [][FunctionNext]_vars

-----------------------------------------------------------------------------
(* Properties of executeFunction *)

\* C27: executeFunction never raises: whatever the function call is, a known
\* or an unknown name with well-formed or malformed arguments, it returns a
\* result, and every failure is returned as a result of type 'error' with a
\* message.
C27_NeverRaises ==
  pc = "settled" =>
    /\ out[1] = "object"
    /\ Prop(out, "type") = Str("error") => Prop(out, "message")[1] = "string"

====
